---- MODULE Spec2Model ----
(***************************************************************************)
(* Claude Code usage monitor (VSCode extension): session windowing,        *)
(* statistical baseline, rate-limit estimation and the status facade.      *)
(*                                                                         *)
(* Units.  The source counts time in milliseconds and usage in tokens.     *)
(* Here a time value is a whole number of minutes and a token value a      *)
(* whole number of hundreds of tokens, so that every product and sum of    *)
(* squares stays inside TLC's 32-bit integers. Every constant of the     *)
(* source is written as in the source and converted by Ms or Tokens.       *)
(***************************************************************************)
EXTENDS Integers, Sequences, FiniteSets, TLC

VARIABLES
    records,        \* the usage records handed to the core (ClaudeUsageRecord[])
    now,            \* the evaluation instant (currentTime / new Date())
    pc,             \* "input" before the operation under study has run, "done" after
    sessionBlocks,  \* getCurrentSessionBlock: the windows it emitted (its local sessionBlocks)
    currentSession, \* getCurrentSessionBlock: its return value
    activeBlockId,  \* calculateUsageBaseline: its currentActiveBlockId argument
    baseline,       \* calculateUsageBaseline: its return value
    error,          \* parseAllUsageData: the ParseError it returned with the records, or null
    configured,     \* the claude-code-usage.customLimit setting
    result,         \* UsageMonitorFacade.getUsageStatus: its return value
    statusBar,      \* statusBarItem: its text and color
    callerArray,    \* the array object the caller passed as records, as the stages left it
    evals,          \* the local variables of each updateStatusBar call in flight
    tokenUsages     \* calculateUsageBaseline: its tokenUsages, the window totals handed to removeOutliers

vars == <<records, now, pc, sessionBlocks, currentSession, activeBlockId, baseline,
          error, configured, result, statusBar, callerArray, evals, tokenUsages>>

----------------------------------------------------------------------------
(* Units and arithmetic                                                    *)

\* a duration or instant of the source, in milliseconds, as minutes
Ms(ms) == ms \div 60000

\* a token amount of the source as hundreds of tokens
Tokens(n) == n \div 100

\* Math.round(a / b) for b > 0: the nearest integer, halves rounded up
Round(a, b) == (2 * a + b) \div (2 * b)

\* Math.max(a, b) / Math.min(a, b)
Max(a, b) == IF a >= b THEN a ELSE b
Min(a, b) == IF a <= b THEN a ELSE b

\* the JavaScript null / undefined where an object is expected
Null == [null |-> TRUE]

\* an optional number or string: absent (null / undefined) or present with a value
Absent == <<>>
Present(x) == <<x>>
ValueOf(o) == o[1]

\* the two callers of updateStatusBar: the setInterval timer and the refresh command
Evaluations == {"timer", "refresh"}

\* the local variables of an updateStatusBar call that has not started:
\* customLimit of getUsageStatus; parsedData, multiSessionBlock, baseline,
\* rateLimitEstimate and status of UsageMonitorFacade.getUsageStatus, with
\* currentTime the new Date() it read; result of updateStatusBar
IdleEvaluation ==
    [pc |-> "idle", customLimit |-> Absent, parsedData |-> Null, currentTime |-> 0,
     multiSessionBlock |-> Null, baseline |-> Null, rateLimitEstimate |-> 0,
     status |-> Null, result |-> Null]

IdleEvaluations == [e \in Evaluations |-> IdleEvaluation]

RECURSIVE SumSeq(_)
SumSeq(s) == IF s = <<>> THEN 0 ELSE s[1] + SumSeq(Tail(s))

\* Array.prototype.map
MapSeq(Op(_), s) == [i \in 1..Len(s) |-> Op(s[i])]

\* number of occurrences of each element of a sequence
BagOfSeq(s) == [x \in {s[i] : i \in DOMAIN s} |-> Cardinality({i \in DOMAIN s : s[i] = x})]

RECURSIVE Flatten(_)
Flatten(ss) == IF ss = <<>> THEN <<>> ELSE ss[1] \o Flatten(Tail(ss))

----------------------------------------------------------------------------
(* Session windower (blockCalculator)                                      *)

SESSION_DURATION_MS == Ms(5 * 60 * 60 * 1000)

\* one hour, the unit floorToHour clears (setUTCMinutes(0, 0, 0))
HOUR_MS == Ms(60 * 60 * 1000)

\* variant: the timestamp is kept as it is
floorToHourKeeping(timestamp) == timestamp

floorToHour(timestamp) == timestamp - (timestamp % HOUR_MS)

\* [...records].sort((a, b) => a.timestamp - b.timestamp): a stable sort of a copy
InsertByTime(r, sorted) ==
    LET k == Cardinality({i \in DOMAIN sorted : sorted[i].timestamp <= r.timestamp})
    IN  SubSeq(sorted, 1, k) \o <<r>> \o SubSeq(sorted, k + 1, Len(sorted))

RECURSIVE SortByTime(_)
SortByTime(s) ==
    IF s = <<>> THEN <<>>
    ELSE InsertByTime(s[Len(s)], SortByTime(SubSeq(s, 1, Len(s) - 1)))

calculateTokenUsage(recs) ==
    LET totalInputTokens  == SumSeq(MapSeq(LAMBDA r : r.input_tokens, recs))
        totalOutputTokens == SumSeq(MapSeq(LAMBDA r : r.output_tokens, recs))
    IN  [totalInputTokens         |-> totalInputTokens,
         totalOutputTokens        |-> totalOutputTokens,
         totalCacheCreationTokens |-> SumSeq(MapSeq(LAMBDA r : r.cache_creation_tokens, recs)),
         totalCacheReadTokens     |-> SumSeq(MapSeq(LAMBDA r : r.cache_read_tokens, recs)),
         totalTokens              |-> totalInputTokens + totalOutputTokens,
         requestCount             |-> Len(recs)]

\* variant: the boundary test on endTime is lost
IsActiveAtIgnoringEnd(endTime, actualEndTime, currentTime) ==
    currentTime - actualEndTime < SESSION_DURATION_MS

\* the isActive test of createSessionFromBlock
IsActiveAt(endTime, actualEndTime, currentTime) ==
    /\ currentTime - actualEndTime < SESSION_DURATION_MS
    /\ currentTime < endTime

\* Date.prototype.toISOString: the instant as a string, one string per instant
toISOString(t) == ToString(t)

createSessionFromBlock(startTime, recs, currentTime) ==
    LET endTime       == startTime + SESSION_DURATION_MS
        actualEndTime == IF recs # <<>> THEN recs[Len(recs)].timestamp ELSE startTime
        tokenUsage    == calculateTokenUsage(recs)
    IN  [sessionId                |-> toISOString(startTime),
         startTime                |-> startTime,
         endTime                  |-> endTime,
         firstRecordTime          |-> IF Len(recs) > 0 THEN recs[1].timestamp ELSE startTime,
         records                  |-> recs,
         totalInputTokens         |-> tokenUsage.totalInputTokens,
         totalOutputTokens        |-> tokenUsage.totalOutputTokens,
         totalCacheCreationTokens |-> tokenUsage.totalCacheCreationTokens,
         totalCacheReadTokens     |-> tokenUsage.totalCacheReadTokens,
         totalTokens              |-> tokenUsage.totalTokens,
         requestCount             |-> tokenUsage.requestCount,
         isActive                 |-> IsActiveAt(endTime, actualEndTime, currentTime),
         timeUntilReset           |-> Max(0, endTime - currentTime)]

createEmptySession(currentTime) ==
    [sessionId                |-> "empty",
     startTime                |-> currentTime,
     endTime                  |-> currentTime,
     firstRecordTime          |-> currentTime,
     records                  |-> <<>>,
     totalInputTokens         |-> 0,
     totalOutputTokens        |-> 0,
     totalCacheCreationTokens |-> 0,
     totalCacheReadTokens     |-> 0,
     totalTokens              |-> 0,
     requestCount             |-> 0,
     isActive                 |-> FALSE,
     timeUntilReset           |-> 0]

\* the loop state of getCurrentSessionBlock before any record: currentBlockStart is null
WindowLoopInit ==
    [started |-> FALSE, currentBlockStart |-> 0, currentBlockRecords |-> <<>>, sessionBlocks |-> <<>>]

\* variant: the record that closes a block is not carried into the new block
WindowLoopStepDropping(st, record, currentTime) ==
    LET recordTime == record.timestamp IN
    IF ~st.started
    THEN [st EXCEPT !.started = TRUE,
                    !.currentBlockStart = floorToHour(recordTime),
                    !.currentBlockRecords = <<record>>]
    ELSE IF recordTime - st.currentBlockStart > SESSION_DURATION_MS
         THEN [st EXCEPT !.sessionBlocks = Append(@, createSessionFromBlock(
                               st.currentBlockStart, st.currentBlockRecords, currentTime)),
                         !.currentBlockStart = floorToHour(recordTime),
                         !.currentBlockRecords = <<>>]
         ELSE [st EXCEPT !.currentBlockRecords = Append(@, record)]

\* variant: a block is closed on the gap since the previous record alone
WindowLoopStepGapOnly(st, record, currentTime) ==
    LET recordTime == record.timestamp IN
    IF ~st.started
    THEN [st EXCEPT !.started = TRUE,
                    !.currentBlockStart = floorToHour(recordTime),
                    !.currentBlockRecords = <<record>>]
    ELSE LET lastRecord          == st.currentBlockRecords[Len(st.currentBlockRecords)]
             timeSinceLastRecord == recordTime - lastRecord.timestamp
         IN  IF timeSinceLastRecord > SESSION_DURATION_MS
             THEN [st EXCEPT !.sessionBlocks = Append(@, createSessionFromBlock(
                                   st.currentBlockStart, st.currentBlockRecords, currentTime)),
                             !.currentBlockStart = floorToHour(recordTime),
                             !.currentBlockRecords = <<record>>]
             ELSE [st EXCEPT !.currentBlockRecords = Append(@, record)]

\* one iteration of the for-loop over sortedRecords
WindowLoopStep(st, record, currentTime) ==
    LET recordTime == record.timestamp IN
    IF ~st.started
    THEN [st EXCEPT !.started = TRUE,
                    !.currentBlockStart = floorToHour(recordTime),
                    !.currentBlockRecords = <<record>>]
    ELSE LET timeSinceBlockStart == recordTime - st.currentBlockStart
             lastRecord          == st.currentBlockRecords[Len(st.currentBlockRecords)]
             timeSinceLastRecord == recordTime - lastRecord.timestamp
         IN  IF timeSinceBlockStart > SESSION_DURATION_MS \/ timeSinceLastRecord > SESSION_DURATION_MS
             THEN [st EXCEPT !.sessionBlocks = Append(@, createSessionFromBlock(
                                   st.currentBlockStart, st.currentBlockRecords, currentTime)),
                             !.currentBlockStart = floorToHour(recordTime),
                             !.currentBlockRecords = <<record>>]
             ELSE [st EXCEPT !.currentBlockRecords = Append(@, record)]

RECURSIVE WindowLoop(_, _, _)
WindowLoop(sortedRecords, currentTime, i) ==
    IF i = 0 THEN WindowLoopInit
    ELSE WindowLoopStep(WindowLoop(sortedRecords, currentTime, i - 1), sortedRecords[i], currentTime)

\* the sessionBlocks array of getCurrentSessionBlock once the trailing block is pushed
SessionBlocks(recs, currentTime) ==
    LET sortedRecords == SortByTime(recs)
        st            == WindowLoop(sortedRecords, currentTime, Len(sortedRecords))
    IN  IF st.started /\ Len(st.currentBlockRecords) > 0
        THEN Append(st.sessionBlocks,
                    createSessionFromBlock(st.currentBlockStart, st.currentBlockRecords, currentTime))
        ELSE st.sessionBlocks

\* variant: the scan runs from the oldest block
SelectOldestActive(blocks) ==
    LET active == {i \in DOMAIN blocks : blocks[i].isActive} IN
    IF active # {} THEN blocks[CHOOSE i \in active : \A j \in active : i <= j]
    ELSE IF blocks # <<>> THEN blocks[Len(blocks)]
    ELSE Null

\* the backward scan for an active session, then the last block, then null
SelectCurrentSession(blocks) ==
    LET active == {i \in DOMAIN blocks : blocks[i].isActive} IN
    IF active # {} THEN blocks[CHOOSE i \in active : \A j \in active : j <= i]
    ELSE IF blocks # <<>> THEN blocks[Len(blocks)]
    ELSE Null

getCurrentSessionBlock(recs, currentTime) ==
    IF Len(recs) = 0 THEN Null
    ELSE SelectCurrentSession(SessionBlocks(recs, currentTime))

----------------------------------------------------------------------------
(* Baseline estimator (usageBaselineCalculator)                            *)

\* [...values].sort((a, b) => a - b)
InsertNumber(v, sorted) ==
    LET k == Cardinality({i \in DOMAIN sorted : sorted[i] <= v})
    IN  SubSeq(sorted, 1, k) \o <<v>> \o SubSeq(sorted, k + 1, Len(sorted))

RECURSIVE SortNumbers(_)
SortNumbers(s) ==
    IF s = <<>> THEN <<>>
    ELSE InsertNumber(s[Len(s)], SortNumbers(SubSeq(s, 1, Len(s) - 1)))

\* the largest k in lo..hi with (2k - 1)^2 * b <= 4 * a, i.e. Math.round(Math.sqrt(a / b))
RECURSIVE RoundSqrtSearch(_, _, _, _)
RoundSqrtSearch(a, b, lo, hi) ==
    IF lo = hi THEN lo
    ELSE LET mid == (lo + hi + 1) \div 2 IN
         IF (2 * mid - 1) * (2 * mid - 1) * b <= 4 * a
         THEN RoundSqrtSearch(a, b, mid, hi)
         ELSE RoundSqrtSearch(a, b, lo, mid - 1)

\* Math.round(m * Math.sqrt(sumSq / n)) for a sum of n squares of values within maxDev
RoundScaledDeviation(m, sumSq, n, maxDev) ==
    RoundSqrtSearch(m * m * sumSq, n, 0, m * maxDev + 1)

\* calculateStandardDeviation returns Math.sqrt(variance), a real: it is kept as the
\* sum of squared differences, their count and the largest absolute difference
calculateStandardDeviation(values, mean) ==
    LET squaredDifferences == MapSeq(LAMBDA v : (v - mean) * (v - mean), values)
        absDifferences     == MapSeq(LAMBDA v : IF v >= mean THEN v - mean ELSE mean - v, values)
    IN  [sumSq  |-> SumSeq(squaredDifferences),
         n      |-> Len(values),
         maxDev |-> CHOOSE d \in {absDifferences[i] : i \in DOMAIN values} :
                        \A j \in DOMAIN values : absDifferences[j] <= d]

\* sortedValues is indexed from 1 here, from 0 in the source
calculatePercentile(sortedValues, percentile) ==
    LET scaled == percentile * (Len(sortedValues) - 1)     \* index * 100
        lower  == scaled \div 100
        upper  == IF scaled % 100 = 0 THEN lower ELSE lower + 1
        weight == scaled % 100                             \* weight * 100
    IN  IF lower = upper THEN sortedValues[lower + 1]
        ELSE Round(sortedValues[lower + 1] * (100 - weight) + sortedValues[upper + 1] * weight, 100)

calculateMedian(sortedValues) ==
    LET mid == Len(sortedValues) \div 2 IN
    IF Len(sortedValues) % 2 = 0
    THEN Round(sortedValues[mid] + sortedValues[mid + 1], 2)
    ELSE sortedValues[mid + 1]

\* variant: the IQR filter is skipped
removeOutliersNone(values) == values

\* variant: a value on either bound is removed as well
removeOutliersStrict(values) ==
    IF Len(values) < 4 THEN values
    ELSE LET sorted == SortNumbers(values)
             q1     == calculatePercentile(sorted, 25)
             q3     == calculatePercentile(sorted, 75)
             iqr    == q3 - q1
         IN  SelectSeq(values, LAMBDA value : /\ 2 * value > 2 * q1 - 3 * iqr
                                              /\ 2 * value < 2 * q3 + 3 * iqr)

removeOutliers(values) ==
    IF Len(values) < 4 THEN values
    ELSE LET sorted == SortNumbers(values)
             q1     == calculatePercentile(sorted, 25)
             q3     == calculatePercentile(sorted, 75)
             iqr    == q3 - q1
         IN  \* lowerBound = q1 - 1.5 * iqr, upperBound = q3 + 1.5 * iqr
             SelectSeq(values, LAMBDA value : /\ 2 * value >= 2 * q1 - 3 * iqr
                                              /\ 2 * value <= 2 * q3 + 3 * iqr)

createDefaultBaseline ==
    [averageUsage           |-> Tokens(30000),
     medianUsage            |-> Tokens(25000),
     standardDeviation      |-> Tokens(15000),
     percentile75           |-> Tokens(40000),
     percentile90           |-> Tokens(55000),
     highUsageThreshold     |-> Tokens(45000),
     criticalUsageThreshold |-> Tokens(60000),
     totalSessions          |-> 0,
     analysisMethod         |-> "default_fallback",
     confidence             |-> "low"]

\* the test that admits a finished block to blockUsages
BlockQualifies(currentBlockTokens, currentBlockId, currentActiveBlockId) ==
    /\ currentBlockTokens > Tokens(1000)
    /\ Present(currentBlockId) # currentActiveBlockId

\* the loop state before the first record of sortedRecords
BaselineLoopInit(sortedRecords) ==
    LET currentBlockStart == floorToHour(sortedRecords[1].timestamp) IN
    [currentBlockStart  |-> currentBlockStart,
     currentBlockTokens |-> 0,
     currentBlockId     |-> toISOString(currentBlockStart),
     blockUsages        |-> <<>>]

\* one iteration of the grouping loop
BaselineLoopStep(st, record, currentActiveBlockId) ==
    LET recordTime          == record.timestamp
        timeSinceBlockStart == recordTime - st.currentBlockStart
        blockSize           == Ms(5 * 60 * 60 * 1000)
    IN  IF timeSinceBlockStart > blockSize
        THEN [currentBlockStart  |-> floorToHour(recordTime),
              currentBlockTokens |-> record.input_tokens + record.output_tokens,
              currentBlockId     |-> toISOString(floorToHour(recordTime)),
              blockUsages        |->
                  IF BlockQualifies(st.currentBlockTokens, st.currentBlockId, currentActiveBlockId)
                  THEN Append(st.blockUsages, st.currentBlockTokens)
                  ELSE st.blockUsages]
        ELSE [st EXCEPT !.currentBlockTokens = @ + record.input_tokens + record.output_tokens]

RECURSIVE BaselineLoop(_, _, _)
BaselineLoop(sortedRecords, currentActiveBlockId, i) ==
    IF i = 0 THEN BaselineLoopInit(sortedRecords)
    ELSE BaselineLoopStep(BaselineLoop(sortedRecords, currentActiveBlockId, i - 1),
                          sortedRecords[i], currentActiveBlockId)

\* the blockUsages array once the trailing block is considered
BlockUsages(recentRecords, currentActiveBlockId) ==
    LET sortedRecords == SortByTime(recentRecords)
        st == BaselineLoop(sortedRecords, currentActiveBlockId, Len(sortedRecords))
    IN  IF BlockQualifies(st.currentBlockTokens, st.currentBlockId, currentActiveBlockId)
        THEN Append(st.blockUsages, st.currentBlockTokens)
        ELSE st.blockUsages

\* records.filter(record => recordTime >= thirtyDaysAgo)
RecentRecords(recs, currentTime) ==
    LET thirtyDaysAgo == currentTime - 30 * 24 * Ms(60 * 60 * 1000) IN
    SelectSeq(recs, LAMBDA record : record.timestamp >= thirtyDaysAgo)

\* the statistics computed from the cleaned usages of activeBlocks
BaselineStatistics(activeBlocks, cleanedUsages) ==
    LET sortedUsages  == SortNumbers(cleanedUsages)
        averageUsage  == Round(SumSeq(cleanedUsages), Len(cleanedUsages))
        deviation     == calculateStandardDeviation(cleanedUsages, averageUsage)
        \* standardDeviation < averageUsage * 0.5
        belowHalfMean == 4 * deviation.sumSq < deviation.n * averageUsage * averageUsage
        \* standardDeviation > averageUsage
        aboveMean     == deviation.sumSq > deviation.n * averageUsage * averageUsage
    IN  [averageUsage           |-> averageUsage,
         medianUsage            |-> calculateMedian(sortedUsages),
         standardDeviation      |-> RoundScaledDeviation(1, deviation.sumSq, deviation.n, deviation.maxDev),
         percentile75           |-> calculatePercentile(sortedUsages, 75),
         percentile90           |-> calculatePercentile(sortedUsages, 90),
         highUsageThreshold     |-> averageUsage
                                    + RoundScaledDeviation(1, deviation.sumSq, deviation.n, deviation.maxDev),
         criticalUsageThreshold |-> averageUsage
                                    + RoundScaledDeviation(2, deviation.sumSq, deviation.n, deviation.maxDev),
         totalSessions          |-> Len(activeBlocks),
         analysisMethod         |-> "statistical_baseline",
         confidence             |-> IF Len(activeBlocks) >= 20 /\ belowHalfMean THEN "high"
                                    ELSE IF Len(activeBlocks) < 10 \/ aboveMean THEN "low"
                                    ELSE "medium"]

\* the part of calculateUsageBaseline that follows the grouping
\* variant: two windows are taken as enough for a computed baseline
BaselineFromUsagesTwo(activeBlocks) ==
    IF Len(activeBlocks) < 2 THEN createDefaultBaseline
    ELSE LET cleanedUsages == removeOutliers(activeBlocks) IN
         IF Len(cleanedUsages) < 2 THEN createDefaultBaseline
         ELSE BaselineStatistics(activeBlocks, cleanedUsages)

BaselineFromUsages(activeBlocks) ==
    IF Len(activeBlocks) < 3 THEN createDefaultBaseline
    ELSE LET cleanedUsages == removeOutliers(activeBlocks) IN
         IF Len(cleanedUsages) < 3 THEN createDefaultBaseline
         ELSE BaselineStatistics(activeBlocks, cleanedUsages)

\* currentTime is the new Date() the function reads
calculateUsageBaseline(recs, currentActiveBlockId, currentTime) ==
    IF Len(recs) = 0 THEN createDefaultBaseline
    ELSE LET recentRecords == RecentRecords(recs, currentTime) IN
         IF Len(recentRecords) = 0 THEN createDefaultBaseline
         ELSE BaselineFromUsages(BlockUsages(recentRecords, currentActiveBlockId))

----------------------------------------------------------------------------
(* Rate-limit detector (rateLimitDetector)                                 *)

createEmptyDetection ==
    [detectedLimit   |-> Absent,
     confidence      |-> "low",
     sampleCount     |-> 0,
     detectionMethod |-> "no_data",
     candidateLimits |-> <<>>]

analyzeSession(recs, startTime) ==
    LET lastRecord       == recs[Len(recs)]
        lastActivityTime == lastRecord.timestamp
    IN  [startTime        |-> startTime,
         endTime          |-> startTime + Ms(5 * 60 * 60 * 1000),
         records          |-> recs,
         totalTokens      |-> SumSeq(MapSeq(LAMBDA r : r.input_tokens + r.output_tokens, recs)),
         duration         |-> lastActivityTime - startTime,
         lastActivityTime |-> lastActivityTime,
         hasLongGapAfter  |-> FALSE,
         isLikelyLimitHit |-> FALSE]

\* the loop state of groupInto5HourSessions before any record: sessionStartTime is null
SessionLoopInit ==
    [started |-> FALSE, sessionStartTime |-> 0, currentSession |-> <<>>, sessions |-> <<>>]

\* one iteration of the loop of groupInto5HourSessions
SessionLoopStep(st, record) ==
    LET recordTime      == record.timestamp
        sessionDuration == Ms(5 * 60 * 60 * 1000)
    IN  IF ~st.started
        THEN [st EXCEPT !.started = TRUE,
                        !.sessionStartTime = floorToHour(recordTime),
                        !.currentSession = <<record>>]
        ELSE LET timeSinceStart      == recordTime - st.sessionStartTime
                 lastRecord          == st.currentSession[Len(st.currentSession)]
                 timeSinceLastRecord == recordTime - lastRecord.timestamp
             IN  IF timeSinceStart <= sessionDuration /\ timeSinceLastRecord <= sessionDuration
                 THEN [st EXCEPT !.currentSession = Append(@, record)]
                 ELSE [st EXCEPT !.sessions =
                                     IF Len(st.currentSession) > 0
                                     THEN Append(@, analyzeSession(st.currentSession, st.sessionStartTime))
                                     ELSE @,
                                 !.sessionStartTime = floorToHour(recordTime),
                                 !.currentSession = <<record>>]

RECURSIVE SessionLoop(_, _)
SessionLoop(sortedRecords, i) ==
    IF i = 0 THEN SessionLoopInit
    ELSE SessionLoopStep(SessionLoop(sortedRecords, i - 1), sortedRecords[i])

groupInto5HourSessions(recs) ==
    LET sortedRecords == SortByTime(recs)
        st            == SessionLoop(sortedRecords, Len(sortedRecords))
    IN  IF Len(st.currentSession) > 0 /\ st.started
        THEN Append(st.sessions, analyzeSession(st.currentSession, st.sessionStartTime))
        ELSE st.sessions

\* variant: a session is marked on its token total alone
MarkedSessionsOnUsage(sessions, dateNow) ==
    [i \in DOMAIN sessions |->
        LET session         == sessions[i]
            gapDuration     == IF i < Len(sessions)
                               THEN sessions[i + 1].startTime - session.lastActivityTime
                               ELSE dateNow - session.lastActivityTime
        IN  [session EXCEPT !.hasLongGapAfter = gapDuration > Ms(60 * 60 * 1000),
                            !.isLikelyLimitHit = /\ session.totalTokens >= Tokens(15000)
                                                 /\ session.totalTokens <= Tokens(200000)]]

\* the sessions with hasLongGapAfter and isLikelyLimitHit set; dateNow is Date.now()
MarkedSessions(sessions, dateNow) ==
    [i \in DOMAIN sessions |->
        LET session         == sessions[i]
            gapDuration     == IF i < Len(sessions)
                               THEN sessions[i + 1].startTime - session.lastActivityTime
                               ELSE dateNow - session.lastActivityTime
            hasLongGapAfter == gapDuration > Ms(60 * 60 * 1000)
            hasHighUsage    == session.totalTokens >= Tokens(10000)
            hasSignificantDuration == session.duration >= Ms(3 * 60 * 60 * 1000)
            isReasonableLimit == /\ session.totalTokens >= Tokens(15000)
                                 /\ session.totalTokens <= Tokens(200000)
        IN  [session EXCEPT !.hasLongGapAfter = hasLongGapAfter,
                            !.isLikelyLimitHit = /\ hasHighUsage
                                                 /\ (hasLongGapAfter \/ hasSignificantDuration)
                                                 /\ isReasonableLimit]]

\* variant: every session with a total between 15000 and 200000 is a candidate
findLimitCandidatesAllPlausible(sessions, dateNow) ==
    MapSeq(LAMBDA session : session.totalTokens,
           SelectSeq(sessions, LAMBDA session : /\ session.totalTokens >= Tokens(15000)
                                                /\ session.totalTokens <= Tokens(200000)))

findLimitCandidates(sessions, dateNow) ==
    LET marked == MarkedSessions(sessions, dateNow) IN
    MapSeq(LAMBDA session : session.totalTokens,
           SelectSeq(marked, LAMBDA session : session.isLikelyLimitHit))

\* the index of the first cluster whose center is within the tolerance of value, 0 if none
FirstClusterFor(clusters, value) ==
    LET tolerance == Tokens(5000)
        near == {k \in DOMAIN clusters :
                    (IF value >= clusters[k].center THEN value - clusters[k].center
                     ELSE clusters[k].center - value) <= tolerance}
    IN  IF near = {} THEN 0 ELSE CHOOSE k \in near : \A j \in near : k <= j

\* variant: the center of a cluster stays at its first value
ClusterStepFixedCenter(clusters, value) ==
    LET k == FirstClusterFor(clusters, value) IN
    IF k = 0 THEN Append(clusters, [center |-> value, values |-> <<value>>])
    ELSE [clusters EXCEPT ![k].values = Append(@, value)]

\* one iteration of the loop of findClusters
ClusterStep(clusters, value) ==
    LET k == FirstClusterFor(clusters, value) IN
    IF k = 0 THEN Append(clusters, [center |-> value, values |-> <<value>>])
    ELSE LET members == Append(clusters[k].values, value) IN
         [clusters EXCEPT ![k] = [center |-> Round(SumSeq(members), Len(members)),
                                  values |-> members]]

RECURSIVE ClusterLoop(_, _)
ClusterLoop(values, i) ==
    IF i = 0 THEN <<>> ELSE ClusterStep(ClusterLoop(values, i - 1), values[i])

\* clusters.sort((a, b) => b.values.length - a.values.length): stable, largest first
InsertBySize(c, sorted) ==
    LET k == Cardinality({i \in DOMAIN sorted : Len(sorted[i].values) >= Len(c.values)})
    IN  SubSeq(sorted, 1, k) \o <<c>> \o SubSeq(sorted, k + 1, Len(sorted))

RECURSIVE SortBySize(_)
SortBySize(s) ==
    IF s = <<>> THEN <<>>
    ELSE InsertBySize(s[Len(s)], SortBySize(SubSeq(s, 1, Len(s) - 1)))

findClusters(values) ==
    IF Len(values) = 0 THEN <<>> ELSE SortBySize(ClusterLoop(values, Len(values)))

\* clusters.reduce((max, cluster) => cluster.values.length > max.values.length ? cluster : max)
LargestCluster(clusters) ==
    clusters[CHOOSE k \in DOMAIN clusters :
                /\ \A j \in DOMAIN clusters : Len(clusters[j].values) <= Len(clusters[k].values)
                /\ \A j \in 1..(k - 1) : Len(clusters[j].values) < Len(clusters[k].values)]

\* Math.min(...values)
MinOfSeq(values) == CHOOSE v \in {values[i] : i \in DOMAIN values} :
                        \A j \in DOMAIN values : v <= values[j]

\* variant: the limit is taken from the largest value of the largest cluster
analyzeLimitCandidatesMax(candidates) ==
    IF Len(candidates) = 0 THEN createEmptyDetection
    ELSE LET sortedCandidates  == SortNumbers(candidates)
             clusters          == findClusters(sortedCandidates)
             largestCluster    == LargestCluster(clusters)
             detectedLimit     == largestCluster.values[Len(largestCluster.values)]
             conservativeLimit == Round(detectedLimit * 85, 100)
         IN  [detectedLimit   |-> Present(conservativeLimit),
              confidence      |-> IF Len(candidates) >= 5 /\ Len(largestCluster.values) >= 3
                                  THEN "high"
                                  ELSE IF Len(candidates) >= 3 /\ Len(largestCluster.values) >= 2
                                  THEN "medium"
                                  ELSE "low",
              sampleCount     |-> Len(candidates),
              detectionMethod |-> "session_gap_analysis",
              candidateLimits |-> sortedCandidates]

analyzeLimitCandidates(candidates) ==
    IF Len(candidates) = 0 THEN createEmptyDetection
    ELSE LET sortedCandidates  == SortNumbers(candidates)
             clusters          == findClusters(sortedCandidates)
             largestCluster    == LargestCluster(clusters)
             detectedLimit     == MinOfSeq(largestCluster.values)
             conservativeLimit == Round(detectedLimit * 85, 100)
         IN  [detectedLimit   |-> Present(conservativeLimit),
              confidence      |-> IF Len(candidates) >= 5 /\ Len(largestCluster.values) >= 3
                                  THEN "high"
                                  ELSE IF Len(candidates) >= 3 /\ Len(largestCluster.values) >= 2
                                  THEN "medium"
                                  ELSE "low",
              sampleCount     |-> Len(candidates),
              detectionMethod |-> "session_gap_analysis",
              candidateLimits |-> sortedCandidates]

\* dateNow is the Date.now() read by findLimitCandidates
detectRateLimit(recs, dateNow) ==
    IF Len(recs) = 0 THEN createEmptyDetection
    ELSE LET sessions        == groupInto5HourSessions(recs)
             limitCandidates == findLimitCandidates(sessions, dateNow)
         IN  IF Len(limitCandidates) = 0 THEN createEmptyDetection
             ELSE analyzeLimitCandidates(limitCandidates)

----------------------------------------------------------------------------
(* Rate-limit estimation service and usage percentage                      *)

\* a number is truthy unless it is 0 (or absent)
Truthy(o) == o # Absent /\ ValueOf(o) # 0

\* the test that selects the detector's output
DetectionUsable(detection) ==
    /\ Truthy(detection.detectedLimit)
    /\ detection.confidence # "low"
    /\ detection.sampleCount >= 3

\* variant: 85% is applied below 5 samples unless the confidence is high
SafetyMarginPercentDownTo85(detection) ==
    IF detection.sampleCount >= 5 THEN (IF detection.confidence = "high" THEN 95 ELSE 92)
    ELSE IF detection.sampleCount >= 3 THEN (IF detection.confidence = "high" THEN 92 ELSE 85)
    ELSE 85

\* safetyMargin * 100
SafetyMarginPercent(detection) ==
    IF detection.sampleCount >= 5 THEN (IF detection.confidence = "high" THEN 95 ELSE 92)
    ELSE IF detection.sampleCount >= 3 THEN (IF detection.confidence = "high" THEN 92 ELSE 88)
    ELSE 85

\* variant: the 25000 floor is left out
StatisticalFallbackNoFloor(usageBaseline) ==
    Round(Max(Max(10 * usageBaseline.percentile90, 8 * usageBaseline.criticalUsageThreshold),
              12 * usageBaseline.percentile75), 10)

\* Math.round(Math.max(percentile90, criticalUsageThreshold * 0.8, percentile75 * 1.2, 25_000))
StatisticalFallback(usageBaseline) ==
    Round(Max(Max(10 * usageBaseline.percentile90, 8 * usageBaseline.criticalUsageThreshold),
              Max(12 * usageBaseline.percentile75, 10 * Tokens(25000))), 10)

\* variant: the detector is consulted before the user's override
calculateRateLimitEstimateDetectorFirst(usageBaseline, recs, limit, dateNow) ==
    LET detection == detectRateLimit(recs, dateNow) IN
    IF DetectionUsable(detection)
    THEN Round(ValueOf(detection.detectedLimit) * SafetyMarginPercent(detection), 100)
    ELSE IF Truthy(limit) /\ ValueOf(limit) > 0 THEN ValueOf(limit)
    ELSE StatisticalFallback(usageBaseline)

\* limit is the optional customLimit argument; dateNow the Date.now() of the detector
calculateRateLimitEstimate(usageBaseline, recs, limit, dateNow) ==
    IF Truthy(limit) /\ ValueOf(limit) > 0 THEN ValueOf(limit)
    ELSE LET detection == detectRateLimit(recs, dateNow) IN
         IF DetectionUsable(detection)
         THEN Round(ValueOf(detection.detectedLimit) * SafetyMarginPercent(detection), 100)
         ELSE StatisticalFallback(usageBaseline)

\* variant: the percentage is capped at 100
calculateUsagePercentageCapped(currentUsage, rateLimitEstimate) ==
    IF rateLimitEstimate <= 0 THEN 0
    ELSE Min(100, Round(currentUsage * 100, rateLimitEstimate))

calculateUsagePercentageWithLimit(currentUsage, rateLimitEstimate) ==
    IF rateLimitEstimate <= 0 THEN 0
    ELSE Round(currentUsage * 100, rateLimitEstimate)

\* variant: the high threshold is tested before the critical one
getUsageLevelHighFirst(currentUsage, usageBaseline) ==
    IF currentUsage >= usageBaseline.highUsageThreshold THEN "high"
    ELSE IF currentUsage >= usageBaseline.criticalUsageThreshold THEN "critical"
    ELSE IF 2 * currentUsage >= usageBaseline.averageUsage THEN "normal"
    ELSE "low"

getUsageLevel(currentUsage, usageBaseline) ==
    IF currentUsage >= usageBaseline.criticalUsageThreshold THEN "critical"
    ELSE IF currentUsage >= usageBaseline.highUsageThreshold THEN "high"
    ELSE IF 2 * currentUsage >= usageBaseline.averageUsage THEN "normal"
    ELSE "low"

\* SettingsManager.getCustomLimit: the configured value if it is positive, else null
getCustomLimit(setting) ==
    IF setting # Absent THEN (IF ValueOf(setting) > 0 THEN setting ELSE Absent)
    ELSE Absent

----------------------------------------------------------------------------
(* Facade (createMultiSessionBlock, UsageMonitorFacade) and status bar     *)

\* the block returned for an empty record list that comes with an error
EmptyBlock(currentTime, err) ==
    [allSessions            |-> <<>>,
     activeSessions         |-> <<>>,
     mostRestrictiveSession |-> createEmptySession(currentTime),
     currentTime            |-> currentTime,
     error                  |-> err]

\* the block built around currentSession; an absent error property is error |-> Null
BlockOfSession(session, currentTime, err) ==
    [allSessions            |-> IF session # Null THEN <<session>> ELSE <<>>,
     activeSessions         |-> IF session # Null /\ session.isActive THEN <<session>> ELSE <<>>,
     mostRestrictiveSession |-> IF session # Null THEN session ELSE createEmptySession(currentTime),
     currentTime            |-> currentTime,
     error                  |-> err]

\* variant: the error is attached only to the empty block
createMultiSessionBlockLosingError(recs, currentTime, err) ==
    IF err # Null /\ Len(recs) = 0 THEN EmptyBlock(currentTime, err)
    ELSE IF Len(recs) = 0 THEN Null
    ELSE BlockOfSession(getCurrentSessionBlock(recs, currentTime), currentTime, Null)

\* variant: an empty event list gives a block around the empty session
createMultiSessionBlockNeverNull(recs, currentTime, err) ==
    IF Len(recs) = 0 THEN EmptyBlock(currentTime, err)
    ELSE BlockOfSession(getCurrentSessionBlock(recs, currentTime), currentTime, err)

createMultiSessionBlock(recs, currentTime, err) ==
    IF err # Null /\ Len(recs) = 0 THEN EmptyBlock(currentTime, err)
    ELSE IF Len(recs) = 0 THEN Null
    ELSE BlockOfSession(getCurrentSessionBlock(recs, currentTime), currentTime, err)

\* the fields of UsageStatus that do not come from the burn-rate analysis
createUsageStatus(multiSessionBlock, rateLimitEstimate, usageBaseline) ==
    LET session      == multiSessionBlock.mostRestrictiveSession
        currentUsage == session.totalTokens
    IN  [currentUsage       |-> currentUsage,
         usageBaseline      |-> usageBaseline.highUsageThreshold,
         usagePercentage    |-> calculateUsagePercentageWithLimit(currentUsage, rateLimitEstimate),
         resetTime          |-> session.endTime,
         timeUntilReset     |-> session.timeUntilReset,
         isHighUsage        |-> currentUsage >= usageBaseline.highUsageThreshold,
         isCriticalUsage    |-> currentUsage >= usageBaseline.criticalUsageThreshold,
         usageLevel         |-> getUsageLevel(currentUsage, usageBaseline),
         baselineConfidence |-> usageBaseline.confidence,
         error              |-> Null]

\* const baseline = calculateUsageBaseline(parsedData.records): no block id is passed
FacadeBaseline(recs, multiSessionBlock, currentTime) ==
    calculateUsageBaseline(recs, Absent, currentTime)

\* the object getUsageStatus returns: the error of the block is copied onto the status.
\* session is not a property of that object: it keeps the session the status was
\* built from, so that properties can refer to it
UsageStatusResult(multiSessionBlock, status, parsed, rateLimitEstimate, usageBaseline) ==
    [status            |-> IF multiSessionBlock.error # Null
                           THEN [status EXCEPT !.error = multiSessionBlock.error]
                           ELSE status,
     session           |-> multiSessionBlock.mostRestrictiveSession,
     parsedData        |-> parsed,
     rateLimitEstimate |-> rateLimitEstimate,
     baseline          |-> usageBaseline]

\* getUsageStatus from the estimate on: const status = this.createUsageStatus(...)
StatusWithEstimate(multiSessionBlock, parsed, rateLimitEstimate, usageBaseline) ==
    UsageStatusResult(multiSessionBlock,
                      createUsageStatus(multiSessionBlock, rateLimitEstimate, usageBaseline),
                      parsed, rateLimitEstimate, usageBaseline)

\* getUsageStatus from the baseline on; the override is passed as customLimit || undefined
StatusWithBaseline(multiSessionBlock, parsed, limit, currentTime, usageBaseline) ==
    StatusWithEstimate(multiSessionBlock, parsed,
                       calculateRateLimitEstimate(usageBaseline, parsed.records,
                                                  IF Truthy(limit) THEN limit ELSE Absent,
                                                  currentTime),
                       usageBaseline)

\* getUsageStatus from the block on: null when there is no block
StatusOfBlock(multiSessionBlock, parsed, limit, currentTime) ==
    IF multiSessionBlock = Null THEN Null
    ELSE StatusWithBaseline(multiSessionBlock, parsed, limit, currentTime,
                            FacadeBaseline(parsed.records, multiSessionBlock, currentTime))

\* parsed is the value parseAllUsageData resolved to, currentTime the new Date() read
getUsageStatus(parsed, limit, currentTime) ==
    StatusOfBlock(createMultiSessionBlock(parsed.records, currentTime, parsed.error),
                  parsed, limit, currentTime)

\* RateLimitEstimationService.formatRateLimitEstimate: the limit in thousands of tokens
formatRateLimitEstimate(rateLimitEstimate) == Round(rateLimitEstimate, Tokens(1000))

\* the text and color updateStatusBar sets from the outcome of getUsageStatus
StatusBarFor(outcome) ==
    IF outcome = Null
    THEN [text |-> "$(terminal) No active block", shown |-> <<>>, color |-> "#888888"]
    ELSE IF outcome.status.error # Null
    THEN [text |-> "$(warning) Data Issue", shown |-> <<>>, color |-> "#ffaa00"]
    ELSE [text  |-> "$(terminal) ${percentage}% | ${rateLimitFormatted} | ${resetTime}",
          shown |-> <<outcome.status.usagePercentage,
                      formatRateLimitEstimate(outcome.rateLimitEstimate),
                      outcome.status.resetTime>>,
          color |-> IF outcome.status.usagePercentage >= 100 THEN "#ff4444"
                    ELSE IF outcome.status.usagePercentage >= 70 THEN "#ffaa00"
                    ELSE "#00aa00"]

\* the ParseError descriptors parseAllUsageData builds
DirectoryNotFound ==
    [type |-> "directory_not_found", message |-> "Claude Code data directory not found"]
NoProjectsFound ==
    [type |-> "data_format_error", message |-> "No Claude Code projects found"]
UnableToParse ==
    [type |-> "data_format_error", message |-> "Unable to parse any Claude Code usage data"]
PartialParse ==
    [type |-> "data_format_error", message |-> "Partial parsing success with errors"]
UnexpectedError ==
    [type |-> "unknown_error", message |-> "Unexpected error while parsing Claude Code data"]

\* the descriptors that can accompany the records parseAllUsageData returns
ParseErrorsFor(recs) ==
    IF Len(recs) = 0
    THEN {Null, DirectoryNotFound, NoProjectsFound, UnableToParse, UnexpectedError}
    ELSE {Null, PartialParse}

----------------------------------------------------------------------------
(* Inputs                                                                  *)

\* longest event list drawn
MaxRecords == 3

\* instants are drawn on a grid of 90 minutes, GridSteps steps long
GridSteps == 8

GridTimes == {k * Ms(90 * 60 * 1000) : k \in 0..GridSteps}

\* evaluation instants: the grid and one step past it
NowTimes == GridTimes \cup {(GridSteps + 1) * Ms(90 * 60 * 1000)}

\* token fields of a drawn record: a request of 600 tokens
SmallRequest ==
    [input_tokens |-> Tokens(400), output_tokens |-> Tokens(200),
     cache_creation_tokens |-> Tokens(100), cache_read_tokens |-> Tokens(300)]

MakeRecord(t, tok) ==
    [timestamp |-> t, input_tokens |-> tok.input_tokens, output_tokens |-> tok.output_tokens,
     cache_creation_tokens |-> tok.cache_creation_tokens, cache_read_tokens |-> tok.cache_read_tokens]

\* a request of 20000 tokens
LargeRequest ==
    [input_tokens |-> Tokens(15000), output_tokens |-> Tokens(5000),
     cache_creation_tokens |-> Tokens(2000), cache_read_tokens |-> Tokens(8000)]

RequestKinds == <<SmallRequest, LargeRequest>>

SeqsUpTo(S, n) == UNION {[1..k -> S] : k \in 0..n}

\* number of time slots of a drawn history
HistorySlots == 7

\* slots come in pairs 90 minutes apart, one pair every 6 hours
SlotTime(k) == ((k - 1) \div 2) * Ms(6 * 60 * 60 * 1000) + ((k - 1) % 2) * Ms(90 * 60 * 1000)

\* the history with one request of kind fill[k] at slot k, none where fill[k] = 0
RECURSIVE HistoryOf(_, _)
HistoryOf(fill, k) ==
    IF k = 0 THEN <<>>
    ELSE HistoryOf(fill, k - 1) \o
         (IF fill[k] = 0 THEN <<>> ELSE <<MakeRecord(SlotTime(k), RequestKinds[fill[k]])>>)

Histories == {HistoryOf(fill, HistorySlots) : fill \in [1..HistorySlots -> 0..Len(RequestKinds)]}

\* evaluation instants for a history: just after it, and 30 days after its first slots
HistoryNows ==
    {SlotTime(HistorySlots) + Ms(90 * 60 * 1000),
     30 * 24 * Ms(60 * 60 * 1000),
     30 * 24 * Ms(60 * 60 * 1000) + Ms(90 * 60 * 1000)}

\* evaluation instants of a status evaluation: 90 minutes after the last slot, when a
\* window opened there is still running, and 30 days after the second slot
EvaluationNows ==
    {SlotTime(HistorySlots) + Ms(90 * 60 * 1000),
     30 * 24 * Ms(60 * 60 * 1000) + Ms(90 * 60 * 1000)}

\* values of the customLimit setting: unset, zero, negative, 500 tokens
ConfiguredLimits ==
    {Absent, Present(0), Present(0 - Tokens(500)), Present(Tokens(500))}

\* the outlier scenario: NormalWindows windows of about 30000 tokens and one of 500000
NormalWindows == 10

\* the usages drawn for a window of about 30000 tokens
NormalUsages == <<Tokens(28000), Tokens(29500), Tokens(30500), Tokens(32000)>>

OutlierUsage == Tokens(500000)

RECURSIVE Repeat(_, _)
Repeat(x, n) == IF n = 0 THEN <<>> ELSE <<x>> \o Repeat(x, n - 1)

\* the window usages with counts[k] windows of NormalUsages[k], in ascending order
RECURSIVE UsagesOfCounts(_, _)
UsagesOfCounts(counts, k) ==
    IF k = 0 THEN <<>>
    ELSE UsagesOfCounts(counts, k - 1) \o Repeat(NormalUsages[k], counts[k])

\* one window every 6 hours, each a single request of the window's usage
WindowsHistory(usages) ==
    [j \in DOMAIN usages |->
        [timestamp             |-> (j - 1) * Ms(6 * 60 * 60 * 1000) + Ms(30 * 60 * 1000),
         input_tokens          |-> usages[j] - Tokens(5000),
         output_tokens         |-> Tokens(5000),
         cache_creation_tokens |-> 0,
         cache_read_tokens     |-> 0]]

\* every multiset of NormalWindows normal usages with the outlier at every position
OutlierHistories ==
    {WindowsHistory(LET usages == UsagesOfCounts(counts, Len(NormalUsages))
                    IN  SubSeq(usages, 1, at) \o <<OutlierUsage>> \o SubSeq(usages, at + 1, Len(usages))) :
        <<counts, at>> \in
            {c \in [1..Len(NormalUsages) -> 0..NormalWindows] :
                SumSeq(c) = NormalWindows} \X (0..NormalWindows)}

\* block ids offered as the window to exclude
HistoryBlockIds ==
    {Absent} \cup {Present(toISOString(floorToHour(SlotTime(k)))) : k \in {1, 2, HistorySlots}}

----------------------------------------------------------------------------
(* Specification of the windower over arbitrary (unsorted) event lists     *)

InitWindower ==
    /\ records \in SeqsUpTo({MakeRecord(t, SmallRequest) : t \in GridTimes}, MaxRecords)
    /\ now \in NowTimes
    /\ pc = "input"
    /\ sessionBlocks = <<>>
    /\ currentSession = Null
    /\ activeBlockId = Absent
    /\ baseline = Null
    /\ error = Null
    /\ configured = Absent
    /\ result = Null
    /\ statusBar = Null
    /\ callerArray = records
    /\ evals = IdleEvaluations
    /\ tokenUsages = <<>>

RunWindower ==
    /\ pc = "input"
    /\ sessionBlocks' = SessionBlocks(records, now)
    /\ currentSession' = getCurrentSessionBlock(records, now)
    /\ pc' = "done"
    /\ UNCHANGED <<tokenUsages, callerArray, evals, records, now, activeBlockId, baseline, error, configured, result, statusBar>>

NextWindower == RunWindower

SpecWindower == InitWindower /\ [][NextWindower]_vars

----------------------------------------------------------------------------
(* Properties of the windower                                              *)

ActiveBlocks == {i \in DOMAIN sessionBlocks : sessionBlocks[i].isActive}

LastOf(s) == s[Len(s)]

\* C1: every input event lies in exactly one emitted window, and consecutive
\* windows are time-disjoint: the later one starts no earlier than the earlier
\* one ends.
C1_WindowingPartition ==
    pc = "done" =>
        /\ BagOfSeq(Flatten(MapSeq(LAMBDA b : b.records, sessionBlocks))) = BagOfSeq(records)
        /\ \A i \in 1..(Len(sessionBlocks) - 1) :
              /\ sessionBlocks[i].endTime = sessionBlocks[i].startTime + SESSION_DURATION_MS
              /\ sessionBlocks[i + 1].startTime >= sessionBlocks[i].endTime

\* an unsorted list split into several windows, one of them holding two events
C1_Witness ==
    /\ pc = "done"
    /\ Len(sessionBlocks) >= 2
    /\ \E i \in 1..(Len(records) - 1) : records[i].timestamp > records[i + 1].timestamp
    /\ \E i \in DOMAIN sessionBlocks : Len(sessionBlocks[i].records) >= 2

\* C2 as stated: for any event list and any now, at most one emitted window
\* is active.
C2_ActiveUniquenessAnyNow ==
    pc = "done" => Cardinality(ActiveBlocks) <= 1

\* C2 amended: when now is not earlier than the start of the most recent
\* window, at most one emitted window is active.
C2_ActiveUniqueness ==
    (pc = "done" /\ sessionBlocks # <<>> /\ now >= LastOf(sessionBlocks).startTime)
        => Cardinality(ActiveBlocks) <= 1

\* several windows, now inside the most recent one, which alone is active
C2_Witness ==
    /\ pc = "done"
    /\ Len(sessionBlocks) >= 2
    /\ now >= LastOf(sessionBlocks).startTime
    /\ ActiveBlocks = {Len(sessionBlocks)}

\* C3: a window is active iff now < endTime and now - (its last event) < 5h;
\* the windower returns the most recent active window if there is one,
\* otherwise the most recent window, and null exactly when there is no event.
C3_CurrentWindowSelection ==
    pc = "done" =>
        /\ \A i \in DOMAIN sessionBlocks :
              sessionBlocks[i].isActive <=>
                  /\ now < sessionBlocks[i].endTime
                  /\ now - LastOf(sessionBlocks[i].records).timestamp < Ms(5 * 60 * 60 * 1000)
        /\ ActiveBlocks # {} =>
              \E i \in ActiveBlocks :
                  /\ currentSession = sessionBlocks[i]
                  /\ \A j \in DOMAIN sessionBlocks : j > i => ~sessionBlocks[j].isActive
        /\ (ActiveBlocks = {} /\ records # <<>>) =>
              /\ currentSession = LastOf(sessionBlocks)
              /\ ~currentSession.isActive
        /\ (currentSession = Null) <=> (records = <<>>)

\* two windows are active and the later one is returned
C3_Witness ==
    /\ pc = "done"
    /\ Cardinality(ActiveBlocks) >= 2
    /\ currentSession = LastOf(sessionBlocks)

\* the windows have all expired and the most recent one is returned inactive
C3_WitnessInactive ==
    /\ pc = "done"
    /\ Len(sessionBlocks) >= 2
    /\ ActiveBlocks = {}
    /\ currentSession = LastOf(sessionBlocks)

----------------------------------------------------------------------------
(* Specification of the baseline estimator over drawn histories            *)

InitBaseline ==
    /\ records \in Histories
    /\ now \in HistoryNows
    /\ activeBlockId \in HistoryBlockIds
    /\ pc = "input"
    /\ sessionBlocks = <<>>
    /\ currentSession = Null
    /\ baseline = Null
    /\ error = Null
    /\ configured = Absent
    /\ result = Null
    /\ statusBar = Null
    /\ callerArray = records
    /\ evals = IdleEvaluations
    /\ tokenUsages = <<>>

RunBaseline ==
    /\ pc = "input"
    /\ baseline' = calculateUsageBaseline(records, activeBlockId, now)
    /\ pc' = "done"
    /\ UNCHANGED <<tokenUsages, callerArray, evals, records, now, activeBlockId, sessionBlocks, currentSession,
                   error, configured, result, statusBar>>

NextBaseline == RunBaseline

SpecBaseline == InitBaseline /\ [][NextBaseline]_vars

\* the windows of the trailing 30 days that count for the baseline: more than
\* 1000 tokens of input and output, and not the excluded window
QualifyingWindows ==
    LET windows == SessionBlocks(RecentRecords(records, now), now) IN
    {i \in DOMAIN windows :
        /\ windows[i].totalInputTokens + windows[i].totalOutputTokens > Tokens(1000)
        /\ Present(windows[i].sessionId) # activeBlockId}

\* C6: with fewer than 3 qualifying windows the baseline is the documented
\* default: average 30000, median 25000, stddev 15000, high 45000,
\* critical 60000, no sessions, confidence low.
C6_BaselineColdStart ==
    (pc = "done" /\ baseline # Null /\ Cardinality(QualifyingWindows) < 3) =>
        /\ baseline.averageUsage = Tokens(30000)
        /\ baseline.medianUsage = Tokens(25000)
        /\ baseline.standardDeviation = Tokens(15000)
        /\ baseline.highUsageThreshold = Tokens(45000)
        /\ baseline.criticalUsageThreshold = Tokens(60000)
        /\ baseline.totalSessions = 0
        /\ baseline.confidence = "low"

\* two windows qualify, a third is excluded by id and a fourth is below the
\* 1000-token floor, and the default is returned
C6_Witness ==
    /\ pc = "done"
    /\ baseline = createDefaultBaseline
    /\ Cardinality(QualifyingWindows) = 2
    /\ activeBlockId # Absent
    /\ LET windows == SessionBlocks(RecentRecords(records, now), now) IN
          /\ Len(windows) = 4
          /\ \E i \in DOMAIN windows : Present(windows[i].sessionId) = activeBlockId
                                       /\ windows[i].totalTokens > Tokens(1000)
          /\ \E i \in DOMAIN windows : windows[i].totalTokens <= Tokens(1000)

----------------------------------------------------------------------------
(* Specification of a status evaluation: the extension's updateStatusBar,  *)
(* run by the periodic timer or the refresh command, over the data and     *)
(* settings found at that instant                                          *)

Init ==
    /\ records \in Histories
    /\ error \in ParseErrorsFor(records)
    /\ now \in EvaluationNows
    /\ configured \in ConfiguredLimits
    /\ pc = "input"
    /\ result = Null
    /\ statusBar = [text |-> "", shown |-> <<>>, color |-> ""]
    /\ sessionBlocks = <<>>
    /\ currentSession = Null
    /\ activeBlockId = Absent
    /\ baseline = Null
    /\ callerArray = records
    /\ evals = IdleEvaluations
    /\ tokenUsages = <<>>

UpdateStatusBar ==
    /\ pc = "input"
    /\ result' = getUsageStatus([records |-> records, error |-> error],
                                getCustomLimit(configured), now)
    /\ statusBar' = StatusBarFor(result')
    /\ pc' = "done"
    /\ UNCHANGED <<tokenUsages, callerArray, evals, records, now, error, configured, sessionBlocks, currentSession,
                   activeBlockId, baseline>>

Next == UpdateStatusBar

Spec == Init /\ [][Next]_vars

----------------------------------------------------------------------------
(* Properties of a status evaluation                                       *)

Evaluated == pc = "done" /\ result # Null

\* C4: a present, positive override is returned unchanged; otherwise the
\* detector's output is used iff detectedLimit is non-null, confidence is not
\* low and sampleCount >= 3; otherwise the statistical fallback is returned.
\* A zero, negative or absent override does not affect the result.
C4_EffectiveLimitPrecedence ==
    Evaluated =>
        LET detection == detectRateLimit(records, now)
            detectorUsed == /\ detection.detectedLimit # Absent
                            /\ detection.confidence # "low"
                            /\ detection.sampleCount >= 3
            b == result.baseline
            withoutOverride ==
                IF detectorUsed
                THEN Round(ValueOf(detection.detectedLimit) * SafetyMarginPercent(detection), 100)
                ELSE Round(Max(Max(10 * b.percentile90, 8 * b.criticalUsageThreshold),
                               Max(12 * b.percentile75, 10 * Tokens(25000))), 10)
        IN  /\ IF configured # Absent /\ ValueOf(configured) > 0
               THEN result.rateLimitEstimate = ValueOf(configured)
               ELSE result.rateLimitEstimate = withoutOverride
            \* the function itself, given any value of the setting as its override
            /\ \A limit \in ConfiguredLimits :
                  calculateRateLimitEstimate(b, records, limit, now) =
                      IF limit # Absent /\ ValueOf(limit) > 0 THEN ValueOf(limit)
                      ELSE withoutOverride

\* a positive override is returned although the detector's output is usable
C4_Witness ==
    /\ Evaluated
    /\ configured # Absent /\ ValueOf(configured) > 0
    /\ DetectionUsable(detectRateLimit(records, now))
    /\ result.rateLimitEstimate = ValueOf(configured)

\* a negative override is ignored and the detector's output is used
C4_WitnessDetector ==
    /\ Evaluated
    /\ configured # Absent /\ ValueOf(configured) < 0
    /\ DetectionUsable(detectRateLimit(records, now))
    /\ result.rateLimitEstimate # StatisticalFallback(result.baseline)

\* C5: for the effective limit of the evaluation, usagePercentage is
\* round(currentUsage / limit * 100), no smaller usage gives a larger
\* percentage, and the percentage is above 100 once the usage is far enough
\* above the limit (round(x) > 100 iff x >= 100.5).
C5_PercentageMonotone ==
    Evaluated =>
        LET usage == result.status.currentUsage
            limit == result.rateLimitEstimate
        IN  /\ limit > 0
            /\ result.status.usagePercentage = (200 * usage + limit) \div (2 * limit)
            /\ \A smaller \in 0..usage :
                  calculateUsagePercentageWithLimit(smaller, limit) <= result.status.usagePercentage
            /\ (200 * usage >= 201 * limit) <=> (result.status.usagePercentage > 100)

\* the usage is above the limit and the percentage above 100
C5_Witness ==
    /\ Evaluated
    /\ result.status.currentUsage > result.rateLimitEstimate
    /\ result.status.usagePercentage > 100

\* C7 as stated: the average, the percentiles and the thresholds of the
\* baseline returned with the status are those of the history without the
\* records of the active current session.
C7_ActiveWindowExcluded ==
    (Evaluated /\ result.session.isActive) =>
        LET without == calculateUsageBaseline(
                           SelectSeq(records, LAMBDA r : \A i \in DOMAIN result.session.records :
                                                             result.session.records[i] # r),
                           Absent, now)
        IN  /\ result.baseline.averageUsage = without.averageUsage
            /\ result.baseline.percentile75 = without.percentile75
            /\ result.baseline.percentile90 = without.percentile90
            /\ result.baseline.highUsageThreshold = without.highUsageThreshold
            /\ result.baseline.criticalUsageThreshold = without.criticalUsageThreshold

\* C9 as stated: with no events and no ingestion error the evaluation returns
\* a snapshot that has no active window and no error.
C9_EmptyListSnapshot ==
    (pc = "done" /\ records = <<>> /\ error = Null) =>
        /\ result # Null
        /\ ~result.session.isActive
        /\ result.status.error = Null

\* C9 amended: with no events and no ingestion error the evaluation returns
\* null, no snapshot at all, and the status bar shows "No active block"
\* rather than a data issue.
C9_EmptyListNoSnapshot ==
    (pc = "done" /\ records = <<>> /\ error = Null) =>
        /\ result = Null
        /\ statusBar.text = "$(terminal) No active block"

C9_Witness ==
    /\ pc = "done"
    /\ records = <<>>
    /\ error = Null
    /\ result = Null

\* C10: an ingestion error descriptor reaches the status unmodified, with a
\* status built from an empty inactive session when no event was recovered
\* and a status computed from the recovered events otherwise; without a
\* descriptor the status has no error.
C10_ErrorPropagation ==
    pc = "done" =>
        /\ error # Null =>
              /\ result # Null
              /\ result.status.error = error
              /\ records = <<>> =>
                    /\ result.session = createEmptySession(now)
                    /\ ~result.session.isActive
                    /\ result.status.currentUsage = 0
              /\ records # <<>> =>
                    /\ result.session = getCurrentSessionBlock(records, now)
                    /\ result.status.currentUsage = result.session.totalTokens
        /\ (error = Null /\ result # Null) => result.status.error = Null

\* some events were recovered and the descriptor is attached to their status
C10_Witness ==
    /\ Evaluated
    /\ error = PartialParse
    /\ result.status.error = PartialParse
    /\ result.status.currentUsage > 0

\* no event was recovered and a status with the descriptor is still returned
C10_WitnessEmpty ==
    /\ Evaluated
    /\ records = <<>>
    /\ error = DirectoryNotFound
    /\ result.status.error = DirectoryNotFound

----------------------------------------------------------------------------
(* Specification of the baseline estimator over the outlier scenario       *)

InitOutlier ==
    /\ records \in OutlierHistories
    /\ now = (NormalWindows + 1) * Ms(6 * 60 * 60 * 1000)
    /\ activeBlockId = Absent
    /\ pc = "input"
    /\ sessionBlocks = <<>>
    /\ currentSession = Null
    /\ baseline = Null
    /\ error = Null
    /\ configured = Absent
    /\ result = Null
    /\ statusBar = Null
    /\ callerArray = records
    /\ evals = IdleEvaluations
    /\ tokenUsages = <<>>

NextOutlier == RunBaseline

SpecOutlier == InitOutlier /\ [][NextOutlier]_vars

\* C8: with 10 windows of about 30000 tokens and one of 500000, the average
\* of the baseline is within 10% of 30000, and the 500000 window is not among
\* the usages left by the IQR rule.
C8_OutlierRobustness ==
    pc = "done" =>
        /\ 10 * baseline.averageUsage >= 9 * Tokens(30000)
        /\ 10 * baseline.averageUsage <= 11 * Tokens(30000)
        /\ LET cleaned == removeOutliers(BlockUsages(RecentRecords(records, now), activeBlockId))
           IN  \A i \in DOMAIN cleaned : cleaned[i] # OutlierUsage

\* a computed baseline whose average is not 30000, from all 11 windows
C8_Witness ==
    /\ pc = "done"
    /\ baseline.analysisMethod = "statistical_baseline"
    /\ baseline.totalSessions = NormalWindows + 1
    /\ baseline.averageUsage # Tokens(30000)
    /\ \E i \in DOMAIN records : records[i].input_tokens + records[i].output_tokens = OutlierUsage

----------------------------------------------------------------------------
(* Specification of the rate-limit detector over drawn session histories   *)

\* number of 8-hour periods of a drawn history, one session shape in each
DetectorSessions == 5

\* a request of total input and output tokens, a quarter of them output
RequestOf(total) ==
    [input_tokens |-> total - total \div 4, output_tokens |-> total \div 4,
     cache_creation_tokens |-> 0, cache_read_tokens |-> 0]

\* the requests of one period starting at base: none; a small one; 20000 tokens
\* late in the period; 20000 tokens over 200 minutes; 30000 tokens; 45000 tokens
SessionShape(shape, base) ==
    CASE shape = 0 -> <<>>
      [] shape = 1 -> <<MakeRecord(base + Ms(30 * 60 * 1000), SmallRequest)>>
      [] shape = 2 -> <<MakeRecord(base + Ms(170 * 60 * 1000), RequestOf(Tokens(20000)))>>
      [] shape = 3 -> <<MakeRecord(base + Ms(30 * 60 * 1000), RequestOf(Tokens(10000))),
                        MakeRecord(base + Ms(200 * 60 * 1000), RequestOf(Tokens(10000)))>>
      [] shape = 4 -> <<MakeRecord(base + Ms(30 * 60 * 1000), RequestOf(Tokens(30000)))>>
      [] shape = 5 -> <<MakeRecord(base + Ms(30 * 60 * 1000), RequestOf(Tokens(45000)))>>

PeriodStart(k) == (k - 1) * Ms(8 * 60 * 60 * 1000)

DetectorHistories ==
    {Flatten([k \in 1..DetectorSessions |-> SessionShape(shapes[k], PeriodStart(k))]) :
        shapes \in [1..DetectorSessions -> 0..5]}

\* 230 minutes into the last period (an hour after its latest request), and 8 hours into it
DetectorNows ==
    {PeriodStart(DetectorSessions) + Ms(230 * 60 * 1000), PeriodStart(DetectorSessions + 1)}

InitDetector ==
    /\ records \in DetectorHistories
    /\ now \in DetectorNows
    /\ pc = "input"
    /\ result = Null
    /\ sessionBlocks = <<>>
    /\ currentSession = Null
    /\ activeBlockId = Absent
    /\ baseline = Null
    /\ error = Null
    /\ configured = Absent
    /\ statusBar = Null
    /\ callerArray = records
    /\ evals = IdleEvaluations
    /\ tokenUsages = <<>>

\* detectRateLimit(records), Date.now() being now
RunDetector ==
    /\ pc = "input"
    /\ result' = detectRateLimit(records, now)
    /\ pc' = "done"
    /\ UNCHANGED <<tokenUsages, callerArray, evals, records, now, sessionBlocks, currentSession, activeBlockId, baseline,
                   error, configured, statusBar>>

NextDetector == RunDetector

SpecDetector == InitDetector /\ [][NextDetector]_vars

\* the sessions of the history with their gap and limit-hit marks at now
DetectorSessionsAt == MarkedSessions(groupInto5HourSessions(records), now)

\* C11 as stated: if no session has both a gap of more than 1 hour after it and
\* a duration under 3 hours, detectedLimit is null.
C11_NullWithoutShortGappedSession ==
    (pc = "done" /\ \A i \in DOMAIN DetectorSessionsAt :
                        ~(/\ DetectorSessionsAt[i].hasLongGapAfter
                          /\ DetectorSessionsAt[i].duration < Ms(3 * 60 * 60 * 1000)))
        => result.detectedLimit = Absent

\* C11 amended: if no session has a gap of more than 1 hour after it (to the
\* next session's start, or to now for the last session) and no session lasts
\* 3 hours or more, detectedLimit is null.
C11_DetectorNullCase ==
    (pc = "done" /\ \A i \in DOMAIN DetectorSessionsAt :
                        /\ ~DetectorSessionsAt[i].hasLongGapAfter
                        /\ DetectorSessionsAt[i].duration < Ms(3 * 60 * 60 * 1000))
        => /\ result.detectedLimit = Absent
           /\ result.sampleCount = 0
           /\ result.confidence = "low"

\* a single short session of 20000 tokens, evaluated an hour after its last
\* request: plausible as a limit, but not marked, and nothing is detected
C11_Witness ==
    /\ pc = "done"
    /\ Len(DetectorSessionsAt) = 1
    /\ DetectorSessionsAt[1].totalTokens = Tokens(20000)
    /\ ~DetectorSessionsAt[1].hasLongGapAfter
    /\ DetectorSessionsAt[1].duration < Ms(3 * 60 * 60 * 1000)
    /\ result = createEmptyDetection

----------------------------------------------------------------------------
(* Specification of the detector over the scenario of three 40000-token    *)
(* sessions, a session of 38000 tokens and a next session 90 minutes later *)

\* a session of 40000 tokens opened in the 5-hour period starting at base: one
\* request; two requests 170 minutes apart; two 60 minutes apart; two 240 apart
FullSession(shape, base) ==
    CASE shape = 1 -> <<MakeRecord(base + Ms(30 * 60 * 1000), RequestOf(Tokens(40000)))>>
      [] shape = 2 -> <<MakeRecord(base + Ms(30 * 60 * 1000), RequestOf(Tokens(20000))),
                        MakeRecord(base + Ms(200 * 60 * 1000), RequestOf(Tokens(20000)))>>
      [] shape = 3 -> <<MakeRecord(base + Ms(30 * 60 * 1000), RequestOf(Tokens(30000))),
                        MakeRecord(base + Ms(90 * 60 * 1000), RequestOf(Tokens(10000)))>>
      [] shape = 4 -> <<MakeRecord(base + Ms(30 * 60 * 1000), RequestOf(Tokens(20000))),
                        MakeRecord(base + Ms(270 * 60 * 1000), RequestOf(Tokens(20000)))>>

\* the 4th session, 38000 tokens, its last request 210 minutes after base
FourthSession(first, base) ==
    <<MakeRecord(base + Ms(30 * 60 * 1000), RequestOf(first)),
      MakeRecord(base + Ms(210 * 60 * 1000), RequestOf(Tokens(38000) - first))>>

\* three sessions of 40000 tokens 5 hours apart, the 4th session, and a request
\* 120 minutes after the 4th session's last one, which opens a session at the
\* hour 90 minutes after it
ScenarioHistories ==
    {FullSession(shapes[1], 0)
        \o FullSession(shapes[2], Ms(5 * 60 * 60 * 1000))
        \o FullSession(shapes[3], Ms(10 * 60 * 60 * 1000))
        \o FourthSession(first, Ms(15 * 60 * 60 * 1000))
        \o <<MakeRecord(Ms(15 * 60 * 60 * 1000) + Ms(330 * 60 * 1000), next)>> :
        <<shapes, first, next>> \in
            [1..3 -> 1..4] \X {Tokens(19000), Tokens(37000)}
                \X {SmallRequest, RequestOf(Tokens(20000)), RequestOf(Tokens(40000))}}

\* half an hour and two hours after the last request
ScenarioNows ==
    {Ms(15 * 60 * 60 * 1000) + Ms(360 * 60 * 1000), Ms(15 * 60 * 60 * 1000) + Ms(450 * 60 * 1000)}

InitScenario ==
    /\ records \in ScenarioHistories
    /\ now \in ScenarioNows
    /\ pc = "input"
    /\ result = Null
    /\ sessionBlocks = <<>>
    /\ currentSession = Null
    /\ activeBlockId = Absent
    /\ baseline = Null
    /\ error = Null
    /\ configured = Absent
    /\ statusBar = Null
    /\ callerArray = records
    /\ evals = IdleEvaluations
    /\ tokenUsages = <<>>

NextScenario == RunDetector

SpecScenario == InitScenario /\ [][NextScenario]_vars

\* the history is grouped as the scenario says: five sessions, three of 40000
\* tokens 5 hours apart, one of 38000, and the next one starting 90 minutes
\* after the last request of the 4th
ScenarioGrouped ==
    /\ Len(DetectorSessionsAt) = 5
    /\ \A i \in 1..3 : /\ DetectorSessionsAt[i].totalTokens = Tokens(40000)
                       /\ DetectorSessionsAt[i].startTime = (i - 1) * Ms(5 * 60 * 60 * 1000)
    /\ DetectorSessionsAt[4].totalTokens = Tokens(38000)
    /\ DetectorSessionsAt[5].startTime - DetectorSessionsAt[4].lastActivityTime
           = Ms(90 * 60 * 1000)

----------------------------------------------------------------------------
(* Specification of the limit estimation of a status evaluation (baseline, *)
(* then calculateRateLimitEstimate) over drawn session histories           *)

\* values of the customLimit setting: unset and 500 tokens
EstimateLimits == {Absent, Present(Tokens(500))}

InitEstimate ==
    /\ records \in DetectorHistories
    /\ now \in DetectorNows
    /\ configured \in EstimateLimits
    /\ pc = "input"
    /\ result = Null
    /\ baseline = Null
    /\ sessionBlocks = <<>>
    /\ currentSession = Null
    /\ activeBlockId = Absent
    /\ error = Null
    /\ statusBar = Null
    /\ callerArray = records
    /\ evals = IdleEvaluations
    /\ tokenUsages = <<>>

\* const baseline = calculateUsageBaseline(parsedData.records);
\* const rateLimitEstimate = calculateRateLimitEstimate(baseline, parsedData.records,
\*                                                      customLimit || undefined)
RunEstimate ==
    /\ pc = "input"
    /\ baseline' = calculateUsageBaseline(records, Absent, now)
    /\ result' = calculateRateLimitEstimate(baseline', records,
                                            IF Truthy(getCustomLimit(configured))
                                            THEN getCustomLimit(configured) ELSE Absent,
                                            now)
    /\ pc' = "done"
    /\ UNCHANGED <<tokenUsages, callerArray, evals, records, now, configured, sessionBlocks, currentSession, activeBlockId,
                   error, statusBar>>

NextEstimate == RunEstimate

SpecEstimate == InitEstimate /\ [][NextEstimate]_vars

\* the detection calculateRateLimitEstimate obtained, and whether it was selected
DetectionAt == detectRateLimit(records, now)

DetectorSelected ==
    /\ pc = "done"
    /\ configured = Absent
    /\ DetectionAt.detectedLimit # Absent
    /\ DetectionAt.confidence # "low"
    /\ DetectionAt.sampleCount >= 3

\* C13 as stated: when the detector output is selected the effective limit is
\* round(detectedLimit * margin), with margin 95% at >= 5 samples with high
\* confidence, 85% at exactly 3 samples with low or medium confidence, and a
\* margin between the two otherwise.
C13_MarginDownTo85 ==
    DetectorSelected =>
        LET limit == ValueOf(DetectionAt.detectedLimit) IN
        /\ (DetectionAt.sampleCount >= 5 /\ DetectionAt.confidence = "high")
               => result = Round(limit * 95, 100)
        /\ (DetectionAt.sampleCount = 3 /\ DetectionAt.confidence \in {"low", "medium"})
               => result = Round(limit * 85, 100)
        /\ \E margin \in 85..95 : result = Round(limit * margin, 100)

\* C13 amended: when the detector output is selected the effective limit is
\* round(detectedLimit * margin), with margin 95% at >= 5 samples with high
\* confidence, 92% at >= 5 samples with medium confidence and 88% at 3 or 4
\* samples, where the confidence is always medium; 85% is never applied.
C13_DetectorSafetyMargin ==
    DetectorSelected =>
        LET limit == ValueOf(DetectionAt.detectedLimit) IN
        /\ DetectionAt.confidence \in {"medium", "high"}
        /\ DetectionAt.sampleCount < 5 => DetectionAt.confidence = "medium"
        /\ result = Round(limit * (IF DetectionAt.sampleCount >= 5
                                   THEN (IF DetectionAt.confidence = "high" THEN 95 ELSE 92)
                                   ELSE 88), 100)

\* exactly 3 samples with medium confidence: 88% of the detected limit, which
\* differs from 85% of it
C13_Witness ==
    /\ DetectorSelected
    /\ DetectionAt.sampleCount = 3
    /\ DetectionAt.confidence = "medium"
    /\ result = Round(ValueOf(DetectionAt.detectedLimit) * 88, 100)
    /\ result # Round(ValueOf(DetectionAt.detectedLimit) * 85, 100)

\* 5 samples with high confidence: 95% of the detected limit
C13_WitnessHigh ==
    /\ DetectorSelected
    /\ DetectionAt.sampleCount >= 5
    /\ DetectionAt.confidence = "high"
    /\ result = Round(ValueOf(DetectionAt.detectedLimit) * 95, 100)

\* percentile and threshold values of the baselines the fallback is tried on
FallbackGrid == {0, Tokens(10000), Tokens(25000), Tokens(40000)}

\* C14: without a positive override and with the detector output not used,
\* the effective limit is round(max(percentile90, 0.8 * criticalUsageThreshold,
\* 1.2 * percentile75, 25000)) of the baseline; the fallback is at least 25000
\* for any baseline.
C14_StatisticalFallback ==
    (pc = "done" /\ configured = Absent /\ ~DetectorSelected) =>
        /\ result = Round(Max(Max(10 * baseline.percentile90, 8 * baseline.criticalUsageThreshold),
                              Max(12 * baseline.percentile75, 10 * Tokens(25000))), 10)
        /\ result >= Tokens(25000)
        /\ \A p90 \in FallbackGrid, critical \in FallbackGrid, p75 \in FallbackGrid :
              StatisticalFallback([percentile90 |-> p90, criticalUsageThreshold |-> critical,
                                   percentile75 |-> p75]) >= Tokens(25000)

\* a computed baseline whose percentiles and thresholds are all under 25000:
\* the floor decides
C14_Witness ==
    /\ pc = "done"
    /\ configured = Absent
    /\ ~DetectorSelected
    /\ baseline.analysisMethod = "statistical_baseline"
    /\ 12 * baseline.percentile75 < 10 * Tokens(25000)
    /\ result = Tokens(25000)

\* a computed baseline decides the fallback, above the floor
C14_WitnessAbove ==
    /\ pc = "done"
    /\ configured = Absent
    /\ ~DetectorSelected
    /\ baseline.analysisMethod = "statistical_baseline"
    /\ result > Tokens(25000)

----------------------------------------------------------------------------
(* Display of an expired session, under Spec                               *)

\* C15 as stated: when events were read without error and no window is active
\* at the evaluation instant, the status bar shows "No active block" and not
\* the usage figures of the expired window.
C15_ExpiredShowsNoActiveBlock ==
    (/\ pc = "done"
     /\ records # <<>>
     /\ error = Null
     /\ \A i \in DOMAIN SessionBlocks(records, now) : ~SessionBlocks(records, now)[i].isActive)
        => /\ statusBar.text = "$(terminal) No active block"
           /\ statusBar.shown = <<>>

----------------------------------------------------------------------------
(* Bounds of the emitted windows, under SpecWindower                       *)

\* C19: every emitted window starts at the hour of its earliest record, ends
\* 5 hours later, holds its records in ascending order of timestamp, each of
\* them between startTime and endTime inclusive, and consecutive ones at most
\* 5 hours apart.
C19_WindowBounds ==
    pc = "done" =>
        \A b \in DOMAIN sessionBlocks :
            LET recs == sessionBlocks[b].records
                startTime == sessionBlocks[b].startTime
                endTime == sessionBlocks[b].endTime
            IN  /\ Len(recs) >= 1
                /\ \A i \in DOMAIN recs : recs[1].timestamp <= recs[i].timestamp
                /\ startTime % Ms(60 * 60 * 1000) = 0
                /\ startTime <= recs[1].timestamp
                /\ recs[1].timestamp < startTime + Ms(60 * 60 * 1000)
                /\ endTime = startTime + Ms(5 * 60 * 60 * 1000)
                /\ \A i \in DOMAIN recs : startTime <= recs[i].timestamp /\ recs[i].timestamp <= endTime
                /\ \A i \in 1..(Len(recs) - 1) :
                      /\ recs[i].timestamp <= recs[i + 1].timestamp
                      /\ recs[i + 1].timestamp - recs[i].timestamp <= Ms(5 * 60 * 60 * 1000)

\* a window opened by a record that is not on the hour and holding a record
\* at exactly its endTime, from a list that was not sorted
C19_Witness ==
    /\ pc = "done"
    /\ \E i \in 1..(Len(records) - 1) : records[i].timestamp > records[i + 1].timestamp
    /\ \E b \in DOMAIN sessionBlocks :
          /\ sessionBlocks[b].records[1].timestamp # sessionBlocks[b].startTime
          /\ LastOf(sessionBlocks[b].records).timestamp = sessionBlocks[b].endTime

----------------------------------------------------------------------------
(* Specification of the three groupings over the same sorted event list    *)

\* the loop state of the baseline's grouping after each record of sortedRecords
BaselineLoopStates(sortedRecords) ==
    [i \in 1..Len(sortedRecords) |->
        [index |-> i, st |-> BaselineLoop(sortedRecords, Absent, i)]]

\* the blocks of the baseline's grouping: currentBlockStart and currentBlockTokens
\* at each point where the code decides whether to push the block
BaselineGrouping(sortedRecords) ==
    LET states == BaselineLoopStates(sortedRecords)
        closing == SelectSeq(states, LAMBDA s :
                       \/ s.index = Len(states)
                       \/ states[s.index + 1].st.currentBlockStart # s.st.currentBlockStart)
    IN  [k \in DOMAIN closing |-> [startTime |-> closing[k].st.currentBlockStart,
                                   tokens    |-> closing[k].st.currentBlockTokens]]

\* start and input+output total of each window of the windower
WindowerGrouping(recs, currentTime) ==
    LET blocks == SessionBlocks(recs, currentTime) IN
    [k \in DOMAIN blocks |-> [startTime |-> blocks[k].startTime,
                              tokens    |-> blocks[k].totalInputTokens + blocks[k].totalOutputTokens]]

\* start and total of each session of the detector
DetectorGrouping(recs) ==
    LET sessions == groupInto5HourSessions(recs) IN
    [k \in DOMAIN sessions |-> [startTime |-> sessions[k].startTime,
                                tokens    |-> sessions[k].totalTokens]]

\* the sorted list with a request of kind fill[k] at grid instant k, none where fill[k] = 0
RECURSIVE GridHistoryOf(_, _)
GridHistoryOf(fill, k) ==
    IF k < 0 THEN <<>>
    ELSE GridHistoryOf(fill, k - 1) \o
         (IF fill[k] = 0 THEN <<>>
          ELSE <<MakeRecord(k * Ms(90 * 60 * 1000), RequestKinds[fill[k]])>>)

GridHistories ==
    {GridHistoryOf(fill, GridSteps) : fill \in [0..GridSteps -> 0..Len(RequestKinds)]}

InitGrouping ==
    /\ records \in GridHistories
    /\ now = (GridSteps + 1) * Ms(90 * 60 * 1000)
    /\ pc = "input"
    /\ result = Null
    /\ sessionBlocks = <<>>
    /\ currentSession = Null
    /\ activeBlockId = Absent
    /\ baseline = Null
    /\ error = Null
    /\ configured = Absent
    /\ statusBar = Null
    /\ callerArray = records
    /\ evals = IdleEvaluations
    /\ tokenUsages = <<>>

\* the windower, the baseline's grouping loop and the detector's grouping on records
RunGrouping ==
    /\ pc = "input"
    /\ result' = [windower |-> WindowerGrouping(records, now),
                  baseline |-> IF records = <<>> THEN <<>> ELSE BaselineGrouping(SortByTime(records)),
                  detector |-> DetectorGrouping(records)]
    /\ pc' = "done"
    /\ UNCHANGED <<tokenUsages, callerArray, evals, records, now, sessionBlocks, currentSession, activeBlockId, baseline,
                   error, configured, statusBar>>

NextGrouping == RunGrouping

SpecGrouping == InitGrouping /\ [][NextGrouping]_vars

\* C20: on the same time-sorted event list the windower, the baseline's
\* grouping and the detector's grouping give the same sequence of session
\* start times with the same input+output totals.
C20_GroupingEquivalence ==
    pc = "done" =>
        /\ result.windower = result.detector
        /\ result.windower = result.baseline

\* a block closed although the next record came within 5 hours of the
\* previous one, and another closed by a gap of more than 5 hours
C20_Witness ==
    /\ pc = "done"
    /\ Len(result.baseline) >= 3
    /\ \E i \in 1..(Len(records) - 1) :
          /\ records[i + 1].timestamp - records[i].timestamp <= Ms(5 * 60 * 60 * 1000)
          /\ \E k \in DOMAIN result.windower :
                result.windower[k].startTime = floorToHour(records[i + 1].timestamp)
                /\ records[i].timestamp < result.windower[k].startTime
    /\ \E i \in 1..(Len(records) - 1) :
          records[i + 1].timestamp - records[i].timestamp > Ms(5 * 60 * 60 * 1000)
    /\ \E k \in DOMAIN result.windower : result.windower[k].tokens > Tokens(20000)

----------------------------------------------------------------------------
(* Burn-rate analysis: the two-hour filter, recent activity and the trend  *)

\* TIME_WINDOWS
FIFTEEN_MIN == Ms(15 * 60 * 1000)
THIRTY_MIN == Ms(30 * 60 * 1000)
SIXTY_MIN == Ms(60 * 60 * 1000)
TWO_HOURS == Ms(2 * 60 * 60 * 1000)

\* windowSizeMs of analyzeTrend
windowSizeMs == Ms(10 * 60 * 1000)

RateLimitTokens(recs) ==
    SumSeq([i \in DOMAIN recs |-> recs[i].input_tokens + recs[i].output_tokens])

\* the for loop of analyzeTrend from time up to endTime: one entry per
\* 10-minute window that holds tokens
RECURSIVE TrendWindowLoop(_, _, _)
TrendWindowLoop(recs, time, endTime) ==
    IF ~(time < endTime) THEN <<>>
    ELSE LET windowEnd == time + windowSizeMs
             windowTokens == RateLimitTokens(SelectSeq(recs, LAMBDA record :
                                 record.timestamp >= time /\ record.timestamp < windowEnd))
         IN  (IF windowTokens > 0 THEN <<[timestamp |-> time, tokens |-> windowTokens]>> ELSE <<>>)
             \o TrendWindowLoop(recs, time + windowSizeMs, endTime)

TrendWindows(recs, currentTime) == TrendWindowLoop(recs, recs[1].timestamp, currentTime)

\* numerator and denominator of the regression slope over the windows; the
\* slope itself is the quotient, and every comparison of the slope with a
\* threshold is made on the two by cross-multiplication (the denominator is
\* positive for two windows or more)
SlopeNumerator(windows) ==
    LET n == Len(windows)
        sumX == SumSeq([i \in 1..n |-> i - 1])
        sumY == SumSeq([i \in 1..n |-> windows[i].tokens])
        sumXY == SumSeq([i \in 1..n |-> (i - 1) * windows[i].tokens])
    IN  n * sumXY - sumX * sumY

SlopeDenominator(windows) ==
    LET n == Len(windows)
        sumX == SumSeq([i \in 1..n |-> i - 1])
        sumX2 == SumSeq([i \in 1..n |-> (i - 1) * (i - 1)])
    IN  n * sumX2 - sumX * sumX

Abs(x) == IF x < 0 THEN -x ELSE x

\* variant: the threshold is 100 whatever the slope
TrendThresholdTwiceAlways100(num, den) == Tokens(2 * 100)

\* variant: the two thresholds are exchanged, 50 above a slope of 100 and 100 below
TrendThresholdTwiceExchanged(num, den) ==
    IF 2 * Abs(num) > Tokens(2 * 100) * den THEN Tokens(2 * 50) ELSE Tokens(2 * 100)

\* twice the threshold: Math.abs(slope) > 100 ? 100 : 50 (twice, because 50
\* tokens is half a unit of token values)
TrendThresholdTwice(num, den) ==
    IF 2 * Abs(num) > Tokens(2 * 100) * den THEN Tokens(2 * 100) ELSE Tokens(2 * 50)

TrendOfSlope(num, den) ==
    IF 2 * num > TrendThresholdTwice(num, den) * den THEN "increasing"
    ELSE IF 2 * num < -(TrendThresholdTwice(num, den) * den) THEN "decreasing"
    ELSE "stable"

TrendOfWindows(windows) ==
    IF Len(windows) < 3 THEN "stable"
    ELSE TrendOfSlope(SlopeNumerator(windows), SlopeDenominator(windows))

analyzeTrend(recs, currentTime) ==
    IF Len(recs) < 3 THEN "stable"
    ELSE TrendOfWindows(TrendWindows(recs, currentTime))

calculateRecentActivity(recs, currentTime) ==
    LET Activity(windowMs) ==
            RateLimitTokens(SelectSeq(recs, LAMBDA record : record.timestamp >= currentTime - windowMs))
    IN  [last15min |-> Activity(FIFTEEN_MIN),
         last30min |-> Activity(THIRTY_MIN),
         last60min |-> Activity(SIXTY_MIN)]

\* 2 to the power of n, 3 to the power of n
RECURSIVE PowerOf(_, _)
PowerOf(b, n) == IF n = 0 THEN 1 ELSE b * PowerOf(b, n - 1)

\* Math.pow(1.5, index) for the record at position i of n (index i - 1),
\* times 2 to the power of n - 1, which makes every weight a whole number
\* and leaves the weighted average unchanged
ScaledWeight(i, n) == PowerOf(3, i - 1) * PowerOf(2, n - i)

\* calculateWeightedBurnRate.  The rates and the request size are whole
\* numbers of tokens (not of hundreds): a token value v of this model is
\* 100 * v tokens.  The quotients are rounded once, exactly.
calculateWeightedBurnRate(recs) ==
    LET n == Len(recs)
        timeSpanMinutes == recs[n].timestamp - recs[1].timestamp
        weightedSum == SumSeq([i \in 1..n |->
                           (recs[i].input_tokens + recs[i].output_tokens) * ScaledWeight(i, n)])
        totalWeight == SumSeq([i \in 1..n |-> ScaledWeight(i, n)])
    IN  IF n = 0 \/ timeSpanMinutes <= 0
        THEN [tokensPerMinute |-> 0, tokensPerHour |-> 0, averageRequestSize |-> 0]
        ELSE [tokensPerMinute    |-> Max(0, Round(100 * weightedSum * n, totalWeight * timeSpanMinutes)),
              tokensPerHour      |-> Max(0, Round(100 * weightedSum * n, totalWeight * timeSpanMinutes)) * 60,
              averageRequestSize |-> Round(100 * RateLimitTokens(recs), n)]

\* adjustedRate as tenths of the raw rate: * 1.2, * 0.8 or unchanged
AdjustedRateTenths(tokensPerMinute, trend) ==
    IF trend = "increasing" THEN 12 * tokensPerMinute
    ELSE IF trend = "decreasing" THEN 8 * tokensPerMinute
    ELSE 10 * tokensPerMinute

\* variant: the 300-minute cap is not applied
PredictedArrivalUncapped(currentTime, currentUsage, target, rateTenths) ==
    IF currentUsage < target
    THEN Present([after |-> currentTime, num |-> 1000 * (target - currentUsage), den |-> rateTenths])
    ELSE Absent

\* new Date(currentTime.getTime() + minutes * 60 * 1000) for minutes =
\* (target - currentUsage) / adjustedRate, if that is above 0 and below 300:
\* the instant num / den minutes after currentTime.  currentUsage and target
\* are token values (hundreds), the rate is in tenths of a token per minute.
PredictedArrival(currentTime, currentUsage, target, rateTenths) ==
    IF /\ currentUsage < target
       /\ 1000 * (target - currentUsage) > 0
       /\ 1000 * (target - currentUsage) < 300 * rateTenths
    THEN Present([after |-> currentTime, num |-> 1000 * (target - currentUsage), den |-> rateTenths])
    ELSE Absent

PredictionConfidence(tokensPerMinute, trend) ==
    IF tokensPerMinute > 10 /\ trend # "stable" THEN "high"
    ELSE IF tokensPerMinute < 5 \/ trend = "stable" THEN "low"
    ELSE "medium"

\* an absent property of predictions is Absent
generatePredictions(tokensPerMinute, currentUsage, highThreshold, baselineUsage, currentTime, trend) ==
    IF tokensPerMinute <= 0
    THEN [confidence |-> "low", timeToHighThreshold |-> Absent, timeToBaseline |-> Absent,
          estimatedDepletionTime |-> Absent]
    ELSE [confidence             |-> PredictionConfidence(tokensPerMinute, trend),
          timeToHighThreshold    |-> PredictedArrival(currentTime, currentUsage, highThreshold,
                                                      AdjustedRateTenths(tokensPerMinute, trend)),
          timeToBaseline         |-> PredictedArrival(currentTime, currentUsage, baselineUsage,
                                                      AdjustedRateTenths(tokensPerMinute, trend)),
          estimatedDepletionTime |-> PredictedArrival(currentTime, currentUsage,
                                                      Max(highThreshold * 2, Tokens(35000)),
                                                      AdjustedRateTenths(tokensPerMinute, trend))]

createEmptyBurnRateAnalysis ==
    [tokensPerMinute    |-> 0,
     tokensPerHour      |-> 0,
     averageRequestSize |-> 0,
     recentActivity     |-> [last15min |-> 0, last30min |-> 0, last60min |-> 0],
     predictions        |-> [confidence |-> "low", timeToHighThreshold |-> Absent,
                             timeToBaseline |-> Absent, estimatedDepletionTime |-> Absent],
     trend              |-> "stable"]

\* variant: the records are sorted but none is filtered out
BurnRateRecentRecordsAll(recs, currentTime) == SortByTime(recs)

\* records.filter(record => timestamp >= analysisStartTime).sort(by timestamp)
BurnRateRecentRecords(recs, currentTime) ==
    SortByTime(SelectSeq(recs, LAMBDA record : record.timestamp >= currentTime - TWO_HOURS))

BurnRateWith(burnRateData, recentActivity, trend, currentTime, currentUsage, highThreshold, baselineUsage) ==
    [tokensPerMinute    |-> burnRateData.tokensPerMinute,
     tokensPerHour      |-> burnRateData.tokensPerHour,
     averageRequestSize |-> burnRateData.averageRequestSize,
     recentActivity     |-> recentActivity,
     predictions        |-> generatePredictions(burnRateData.tokensPerMinute, currentUsage,
                                                highThreshold, baselineUsage, currentTime, trend),
     trend              |-> trend]

BurnRateOfRecent(recentRecords, currentTime, currentUsage, highThreshold, baselineUsage) ==
    IF recentRecords = <<>> THEN createEmptyBurnRateAnalysis
    ELSE BurnRateWith(calculateWeightedBurnRate(recentRecords),
                      calculateRecentActivity(recentRecords, currentTime),
                      analyzeTrend(recentRecords, currentTime),
                      currentTime, currentUsage, highThreshold, baselineUsage)

\* calculateBurnRate without the per-model breakdown (records carry no model
\* name here).  Rounding is exact where the source rounds a floating-point
\* quotient, and a predicted instant is kept as a fraction of minutes where
\* the source truncates it to a millisecond.
calculateBurnRate(recs, currentTime, currentUsage, highThreshold, baselineUsage) ==
    IF recs = <<>> THEN createEmptyBurnRateAnalysis
    ELSE BurnRateOfRecent(BurnRateRecentRecords(recs, currentTime), currentTime,
                          currentUsage, highThreshold, baselineUsage)

----------------------------------------------------------------------------
(* The burn-rate analysis on drawn bucket totals                            *)

\* number of consecutive 10-minute buckets of a drawn history
TrendBuckets == 5

\* the total of a bucket: none, or 100, 200, 300, 600, 1000 or 1500 tokens
BucketTotals == {0, Tokens(100), Tokens(200), Tokens(300), Tokens(600), Tokens(1000), Tokens(1500)}

\* first instant of the drawn buckets
TrendBase == Ms(9 * 60 * 60 * 1000)

\* one request per non-empty bucket, 3 minutes into it
RECURSIVE TrendHistoryOf(_, _)
TrendHistoryOf(totals, k) ==
    IF k = 0 THEN <<>>
    ELSE TrendHistoryOf(totals, k - 1) \o
         (IF totals[k] = 0 THEN <<>>
          ELSE <<MakeRecord(TrendBase + (k - 1) * windowSizeMs + Ms(3 * 60 * 1000),
                            RequestOf(totals[k]))>>)

TrendHistories ==
    {TrendHistoryOf(totals, TrendBuckets) : totals \in [1..TrendBuckets -> BucketTotals]}

\* just after the last bucket, and so late that the first two buckets have
\* left the two-hour window
TrendNows ==
    {TrendBase + TrendBuckets * windowSizeMs,
     TrendBase + TWO_HOURS + 2 * windowSizeMs}

InitTrend ==
    /\ records \in TrendHistories
    /\ now \in TrendNows
    /\ pc = "input"
    /\ result = Null
    /\ sessionBlocks = <<>>
    /\ currentSession = Null
    /\ activeBlockId = Absent
    /\ baseline = Null
    /\ error = Null
    /\ configured = Absent
    /\ statusBar = Null
    /\ callerArray = records
    /\ evals = IdleEvaluations
    /\ tokenUsages = <<>>

\* calculateBurnRate on records, with their total as the current usage and
\* the thresholds of the default baseline
RunBurnRate ==
    /\ pc = "input"
    /\ result' = calculateBurnRate(records, now, RateLimitTokens(records),
                                    createDefaultBaseline.highUsageThreshold,
                                    createDefaultBaseline.averageUsage)
    /\ pc' = "done"
    /\ UNCHANGED <<tokenUsages, callerArray, evals, records, now, sessionBlocks, currentSession, activeBlockId, baseline,
                   error, configured, statusBar>>

NextTrend == RunBurnRate

SpecTrend == InitTrend /\ [][NextTrend]_vars

\* the non-empty 10-minute buckets of the two-hour window, as the analysis cuts them
RecentBuckets ==
    IF BurnRateRecentRecords(records, now) = <<>> THEN <<>>
    ELSE TrendWindows(BurnRateRecentRecords(records, now), now)

ConsecutiveBuckets(buckets) ==
    \A i \in 1..(Len(buckets) - 1) : buckets[i + 1].timestamp = buckets[i].timestamp + windowSizeMs

\* C18 as stated: whenever the consecutive 10-minute buckets of the two-hour
\* window have strictly increasing totals, the trend is "increasing".
C18_IncreasingBucketsIncreasingTrend ==
    (/\ pc = "done"
     /\ Len(RecentBuckets) >= 2
     /\ ConsecutiveBuckets(RecentBuckets)
     /\ \A i \in 1..(Len(RecentBuckets) - 1) :
           RecentBuckets[i + 1].tokens > RecentBuckets[i].tokens)
    => result.trend = "increasing"

\* C18: when the two-hour window holds at least three non-empty 10-minute
\* buckets and the total of each exceeds the total of the one before it by
\* more than 50 tokens, the trend of the burn-rate analysis is "increasing";
\* so it is for the totals 100, 300, 600, 1000, 1500.
C18_TrendScenario ==
    (/\ pc = "done"
     /\ Len(RecentBuckets) >= 3
     /\ \A i \in 1..(Len(RecentBuckets) - 1) :
           2 * (RecentBuckets[i + 1].tokens - RecentBuckets[i].tokens) > Tokens(2 * 50))
    => result.trend = "increasing"

\* the totals 100, 300, 600, 1000, 1500 in five consecutive buckets
C18_Witness ==
    /\ pc = "done"
    /\ [i \in DOMAIN RecentBuckets |-> RecentBuckets[i].tokens]
         = <<Tokens(100), Tokens(300), Tokens(600), Tokens(1000), Tokens(1500)>>
    /\ ConsecutiveBuckets(RecentBuckets)
    /\ result.trend = "increasing"

\* three buckets that rise by exactly 100 tokens each: the slope is 100
C18_WitnessSlope100 ==
    /\ pc = "done"
    /\ Len(RecentBuckets) = 3
    /\ \A i \in 1..2 : RecentBuckets[i + 1].tokens - RecentBuckets[i].tokens = Tokens(100)
    /\ result.trend = "increasing"

----------------------------------------------------------------------------
(* The arrays the stages allocate and sort                                 *)

\* A heap is a sequence of arrays and a reference is the index of one; an
\* array is the sequence of its elements.  The operators below take and
\* return a heap together with the reference the expression evaluates to.
\* Records are values here: no stage assigns to a property of a record.

\* variant: the same array instead of a copy
ArrayCopyAlias(heap, ref) == [heap |-> heap, ref |-> ref]

\* [...a]: a new array with the elements of the array at ref
ArrayCopy(heap, ref) == [heap |-> Append(heap, heap[ref]), ref |-> Len(heap) + 1]

\* a.filter(...): a new array holding the elements that passed
ArrayOf(heap, elements) == [heap |-> Append(heap, elements), ref |-> Len(heap) + 1]

\* a.sort(by timestamp): sorts the array in place and evaluates to the same array
ArraySort(a) == [heap |-> [a.heap EXCEPT ![a.ref] = SortByTime(a.heap[a.ref])], ref |-> a.ref]

\* getCurrentSessionBlock(records, ...): the heap when it returns
WindowerArrays(heap, ref) ==
    IF Len(heap[ref]) = 0 THEN heap
    ELSE ArraySort(ArrayCopy(heap, ref)).heap

\* calculateUsageBaseline(records, ...): the heap when it returns
BaselineRecentArrays(recent) ==
    IF Len(recent.heap[recent.ref]) = 0 THEN recent.heap
    ELSE ArraySort(recent).heap

BaselineArrays(heap, ref, currentTime) ==
    IF Len(heap[ref]) = 0 THEN heap
    ELSE BaselineRecentArrays(ArrayOf(heap, RecentRecords(heap[ref], currentTime)))

\* detectRateLimit(records): the heap when it returns
DetectorArrays(heap, ref) ==
    IF Len(heap[ref]) = 0 THEN heap
    ELSE ArraySort(ArrayCopy(heap, ref)).heap

\* calculateBurnRate(records, ...): the heap when it returns
BurnRateArrays(heap, ref, currentTime) ==
    IF Len(heap[ref]) = 0 THEN heap
    ELSE ArraySort(ArrayOf(heap, SelectSeq(heap[ref], LAMBDA record :
                                     record.timestamp >= currentTime - TWO_HOURS))).heap

----------------------------------------------------------------------------
(* The four stages called again and again on one array of the caller       *)

\* instants of the drawn records: 12 hours, 6.5 hours, 90 and 20 minutes before now
StageTimes == {0, Ms(330 * 60 * 1000), Ms(630 * 60 * 1000), Ms(700 * 60 * 1000)}

StageNow == Ms(12 * 60 * 60 * 1000)

InitStages ==
    /\ records \in SeqsUpTo({MakeRecord(t, SmallRequest) : t \in StageTimes}, MaxRecords)
    /\ now = StageNow
    /\ pc = "input"
    /\ sessionBlocks = <<>>
    /\ currentSession = Null
    /\ activeBlockId = Absent
    /\ baseline = Null
    /\ error = Null
    /\ configured = Absent
    /\ result = Null
    /\ statusBar = Null
    /\ callerArray = records
    /\ evals = IdleEvaluations
    /\ tokenUsages = <<>>

\* each stage is handed the caller's array (reference 1 of a heap that holds
\* nothing else); the arrays it allocated are dropped when it returns
StageWindower ==
    /\ result' = [stage |-> "windower", value |-> getCurrentSessionBlock(callerArray, now)]
    /\ callerArray' = WindowerArrays(<<callerArray>>, 1)[1]
    /\ pc' = "done"
    /\ UNCHANGED <<tokenUsages, evals, records, now, sessionBlocks, currentSession, activeBlockId, baseline,
                   error, configured, statusBar>>

StageBaseline ==
    /\ result' = [stage |-> "baseline", value |-> calculateUsageBaseline(callerArray, Absent, now)]
    /\ callerArray' = BaselineArrays(<<callerArray>>, 1, now)[1]
    /\ pc' = "done"
    /\ UNCHANGED <<tokenUsages, evals, records, now, sessionBlocks, currentSession, activeBlockId, baseline,
                   error, configured, statusBar>>

StageDetector ==
    /\ result' = [stage |-> "detector", value |-> detectRateLimit(callerArray, now)]
    /\ callerArray' = DetectorArrays(<<callerArray>>, 1)[1]
    /\ pc' = "done"
    /\ UNCHANGED <<tokenUsages, evals, records, now, sessionBlocks, currentSession, activeBlockId, baseline,
                   error, configured, statusBar>>

StageBurnRate ==
    /\ result' = [stage |-> "burnRate",
                  value |-> calculateBurnRate(callerArray, now, RateLimitTokens(callerArray),
                                              createDefaultBaseline.highUsageThreshold,
                                              createDefaultBaseline.averageUsage)]
    /\ callerArray' = BurnRateArrays(<<callerArray>>, 1, now)[1]
    /\ pc' = "done"
    /\ UNCHANGED <<tokenUsages, evals, records, now, sessionBlocks, currentSession, activeBlockId, baseline,
                   error, configured, statusBar>>

NextStages == StageWindower \/ StageBaseline \/ StageDetector \/ StageBurnRate

SpecStages == InitStages /\ [][NextStages]_vars

\* C16: after any sequence of calls of the four stages on the caller's
\* event list, the list has the same elements in the same order as before
\* the first call.
C16_InputImmutability == callerArray = records

\* a stage that sorts has run on a list that was not in time order
C16_Witness ==
    /\ pc = "done"
    /\ result.stage = "baseline"
    /\ Len(records) = MaxRecords
    /\ records # SortByTime(records)
    /\ callerArray = records

\* the burn-rate analysis has filtered some records out of an unordered list and kept others
C16_WitnessBurnRate ==
    /\ pc = "done"
    /\ result.stage = "burnRate"
    /\ records # SortByTime(records)
    /\ result.value.recentActivity.last60min > 0
    /\ result.value.recentActivity.last60min < RateLimitTokens(records)
    /\ callerArray = records

----------------------------------------------------------------------------
(* Overlapping calls of updateStatusBar                                    *)

\* An updateStatusBar call runs in four turns of the event loop: it reads
\* the setting and starts parseAllUsageData; the files are read; getUsageStatus
\* continues after "await parseAllUsageData()" up to "await
\* this.createUsageStatus(...)"; it continues from there and returns; and
\* updateStatusBar continues after "await getUsageStatus()" and writes the
\* status bar item.  Between two turns the other call, Claude Code writing
\* usage, the clock and the user changing the setting can all act.

\* variant: parsedData kept where the timer's call put it
LocalParsedDataOfTimer(ev, e) ==
    IF ev["timer"].parsedData # Null THEN ev["timer"].parsedData ELSE ev[e].parsedData

\* the constant parsedData of the getUsageStatus call e
LocalParsedData(ev, e) == ev[e].parsedData

\* getUsageStatus between its two awaits, from the estimate on
EvaluationWithEstimate(ev, currentTime, multiSessionBlock, usageBaseline, rateLimitEstimate) ==
    [ev EXCEPT !.pc = "awaitStatus",
               !.currentTime = currentTime,
               !.multiSessionBlock = multiSessionBlock,
               !.baseline = usageBaseline,
               !.rateLimitEstimate = rateLimitEstimate,
               !.status = createUsageStatus(multiSessionBlock, rateLimitEstimate, usageBaseline)]

\* getUsageStatus between its two awaits, from the baseline on
EvaluationWithBaseline(ev, parsed, currentTime, multiSessionBlock, usageBaseline) ==
    EvaluationWithEstimate(ev, currentTime, multiSessionBlock, usageBaseline,
                           calculateRateLimitEstimate(usageBaseline, parsed.records,
                                                      IF Truthy(ev.customLimit) THEN ev.customLimit ELSE Absent,
                                                      currentTime))

\* getUsageStatus between its two awaits, from the block on: it returns null without a block
EvaluationWithBlock(ev, parsed, currentTime, multiSessionBlock) ==
    IF multiSessionBlock = Null
    THEN [ev EXCEPT !.pc = "returned", !.currentTime = currentTime, !.result = Null]
    ELSE EvaluationWithBaseline(ev, parsed, currentTime, multiSessionBlock,
                                FacadeBaseline(parsed.records, multiSessionBlock, currentTime))

\* getUsageStatus between its two awaits
ContinuedEvaluation(ev, parsed, currentTime) ==
    EvaluationWithBlock(ev, parsed, currentTime,
                        createMultiSessionBlock(parsed.records, currentTime, parsed.error))

\* number of usage records Claude Code writes while the calls run
OverlapRecords == 1

\* number of times the clock advances while the calls run
OverlapTicks == 1

\* the clock advances by 200 minutes at a time
OverlapTick == Ms(200 * 60 * 1000)

OverlapStart == Ms(6 * 60 * 60 * 1000)

OverlapLimits == {Absent, Present(Tokens(500))}

InitOverlap ==
    /\ records \in {<<>>, <<MakeRecord(0, LargeRequest)>>}
    /\ error = Null
    /\ now = OverlapStart
    /\ configured \in OverlapLimits
    /\ pc = "input"
    /\ result = Null
    /\ statusBar = [text |-> "", shown |-> <<>>, color |-> ""]
    /\ sessionBlocks = <<>>
    /\ currentSession = Null
    /\ activeBlockId = Absent
    /\ baseline = Null
    /\ callerArray = records
    /\ evals = IdleEvaluations
    /\ tokenUsages = <<>>

\* the timer fires or the refresh command runs: updateStatusBar, getUsageStatus
\* (which reads the setting) and UsageMonitorFacade.getUsageStatus up to its first
\* await.  One call of each caller is followed from its start to the status bar.
StartEvaluation(e) ==
    /\ evals[e].pc = "idle"
    /\ evals' = [evals EXCEPT ![e] = [IdleEvaluation EXCEPT !.pc = "parsing",
                                                            !.customLimit = getCustomLimit(configured)]]
    /\ UNCHANGED <<tokenUsages, callerArray, records, now, pc, sessionBlocks, currentSession, activeBlockId,
                   baseline, error, configured, result, statusBar>>

\* parseAllUsageData reads the files and resolves
ParseResolves(e) ==
    /\ evals[e].pc = "parsing"
    /\ evals' = [evals EXCEPT ![e].pc = "parsed",
                              ![e].parsedData = [records |-> records, error |-> error]]
    /\ UNCHANGED <<tokenUsages, callerArray, records, now, pc, sessionBlocks, currentSession, activeBlockId,
                   baseline, error, configured, result, statusBar>>

\* getUsageStatus continues after its first await with the clock as it is now
ContinueEvaluation(e) ==
    /\ evals[e].pc = "parsed"
    /\ evals' = [evals EXCEPT ![e] = ContinuedEvaluation(evals[e], LocalParsedData(evals, e), now)]
    /\ UNCHANGED <<tokenUsages, callerArray, records, now, pc, sessionBlocks, currentSession, activeBlockId,
                   baseline, error, configured, result, statusBar>>

\* getUsageStatus continues after "await this.createUsageStatus(...)" and returns
ReturnEvaluation(e) ==
    /\ evals[e].pc = "awaitStatus"
    /\ evals' = [evals EXCEPT ![e].pc = "returned",
                              ![e].result = UsageStatusResult(evals[e].multiSessionBlock, evals[e].status,
                                                              LocalParsedData(evals, e),
                                                              evals[e].rateLimitEstimate, evals[e].baseline)]
    /\ UNCHANGED <<tokenUsages, callerArray, records, now, pc, sessionBlocks, currentSession, activeBlockId,
                   baseline, error, configured, result, statusBar>>

\* updateStatusBar continues after "await getUsageStatus()" and writes the status bar item
ShowEvaluation(e) ==
    /\ evals[e].pc = "returned"
    /\ evals' = [evals EXCEPT ![e].pc = "done"]
    /\ statusBar' = StatusBarFor(evals[e].result)
    /\ pc' = "done"
    /\ UNCHANGED <<tokenUsages, callerArray, records, now, sessionBlocks, currentSession, activeBlockId,
                   baseline, error, configured, result>>

\* Claude Code appends a usage record to its log
UsageWritten ==
    /\ Len(records) < OverlapRecords + 1
    /\ records' = Append(records, MakeRecord(now, LargeRequest))
    /\ callerArray' = records'
    /\ UNCHANGED <<tokenUsages, evals, now, pc, sessionBlocks, currentSession, activeBlockId, baseline,
                   error, configured, result, statusBar>>

TimePasses ==
    /\ now < OverlapStart + OverlapTicks * OverlapTick
    /\ now' = now + OverlapTick
    /\ UNCHANGED <<tokenUsages, callerArray, evals, records, pc, sessionBlocks, currentSession, activeBlockId,
                   baseline, error, configured, result, statusBar>>

\* the user edits claude-code-usage.customLimit
SettingChanged ==
    /\ \E limit \in OverlapLimits \ {configured} : configured' = limit
    /\ UNCHANGED <<tokenUsages, callerArray, evals, records, now, pc, sessionBlocks, currentSession,
                   activeBlockId, baseline, error, result, statusBar>>

NextOverlap ==
    \/ \E e \in Evaluations :
          \/ StartEvaluation(e)
          \/ ParseResolves(e)
          \/ ContinueEvaluation(e)
          \/ ReturnEvaluation(e)
          \/ ShowEvaluation(e)
    \/ UsageWritten
    \/ TimePasses
    \/ SettingChanged

SpecOverlap == InitOverlap /\ [][NextOverlap]_vars

Returned(e) == evals[e].pc \in {"returned", "done"}

\* C17: however the calls started by the timer and by the refresh command
\* interleave with each other and with the log, the clock and the setting
\* changing, the result of each call is the result a call running alone
\* gives on that call's own event snapshot, limit and instant; and two calls
\* that have the same snapshot and the same instant have the same baseline,
\* and the same result when they also read the same limit.
C17_OverlappingEvaluations ==
    /\ \A e \in Evaluations :
          Returned(e) =>
             evals[e].result = getUsageStatus(evals[e].parsedData, evals[e].customLimit,
                                              evals[e].currentTime)
    /\ \A e1, e2 \in Evaluations :
          (/\ Returned(e1) /\ Returned(e2)
           /\ evals[e1].parsedData = evals[e2].parsedData
           /\ evals[e1].currentTime = evals[e2].currentTime)
          => /\ evals[e1].baseline = evals[e2].baseline
             /\ evals[e1].customLimit = evals[e2].customLimit => evals[e1].result = evals[e2].result

\* the timer's call has returned while the refresh call, which holds another
\* snapshot read at another instant, is between its two awaits
C17_Witness ==
    /\ Returned("timer")
    /\ evals["refresh"].pc = "awaitStatus"
    /\ evals["timer"].parsedData # evals["refresh"].parsedData
    /\ evals["timer"].currentTime # evals["refresh"].currentTime
    /\ evals["timer"].result # Null
    /\ evals["timer"].result.status # evals["refresh"].status

\* both calls have returned on the same snapshot at the same instant
C17_WitnessSameInputs ==
    /\ Returned("timer") /\ Returned("refresh")
    /\ evals["timer"].parsedData = evals["refresh"].parsedData
    /\ evals["timer"].currentTime = evals["refresh"].currentTime
    /\ evals["timer"].result # Null
    /\ Len(evals["timer"].parsedData.records) >= 2

----------------------------------------------------------------------------
(* The count of windows in the baseline and its confidence                 *)

\* the window totals calculateUsageBaseline collected from records (activeBlocks)
ActiveBlocksAt == BlockUsages(RecentRecords(records, now), activeBlockId)

\* the window totals the statistics are computed from (cleanedUsages)
CleanedUsagesAt == removeOutliers(ActiveBlocksAt)

\* C21: totalSessions of a computed baseline is the number of window totals
\* that remain after outlier removal.
C21_TotalSessionsAfterRemoval ==
    (pc = "done" /\ baseline.analysisMethod = "statistical_baseline") =>
        baseline.totalSessions = Len(CleanedUsagesAt)

\* window totals of the drawn histories: 6000, 30000 and 90000 tokens
ConfidenceUsages == <<Tokens(6000), Tokens(30000), Tokens(90000)>>

\* largest number of windows of a drawn history
ConfidenceWindows == 21

\* counts[k] windows of ConfidenceUsages[k], in ascending order
ConfidenceUsagesOf(counts) ==
    Repeat(ConfidenceUsages[1], counts[1]) \o Repeat(ConfidenceUsages[2], counts[2])
        \o Repeat(ConfidenceUsages[3], counts[3])

ConfidenceHistories ==
    {WindowsHistory(ConfidenceUsagesOf(counts)) :
        counts \in {c \in [1..3 -> 0..ConfidenceWindows] : c[1] + c[2] + c[3] <= ConfidenceWindows}}

InitConfidence ==
    /\ records \in ConfidenceHistories
    /\ now = (ConfidenceWindows + 1) * Ms(6 * 60 * 60 * 1000)
    /\ activeBlockId = Absent
    /\ pc = "input"
    /\ sessionBlocks = <<>>
    /\ currentSession = Null
    /\ baseline = Null
    /\ error = Null
    /\ configured = Absent
    /\ result = Null
    /\ statusBar = Null
    /\ callerArray = records
    /\ evals = IdleEvaluations
    /\ tokenUsages = <<>>

NextConfidence == RunBaseline

SpecConfidence == InitConfidence /\ [][NextConfidence]_vars

\* the standard deviation of the cleaned usages about their rounded mean
CleanedDeviation ==
    calculateStandardDeviation(CleanedUsagesAt, Round(SumSeq(CleanedUsagesAt), Len(CleanedUsagesAt)))

\* standard deviation < 0.5 * mean, on the squares
DeviationBelowHalfMean(deviation, mean) == 4 * deviation.sumSq < deviation.n * mean * mean

\* standard deviation > mean, on the squares
DeviationAboveMean(deviation, mean) == deviation.sumSq > deviation.n * mean * mean

\* C22: the confidence of a computed baseline is "high" iff at least 20
\* windows survive outlier removal and the standard deviation is below half
\* the mean; otherwise "low" iff fewer than 10 survive or the standard
\* deviation exceeds the mean; otherwise "medium".
C22_ConfidenceOnSurvivingWindows ==
    (pc = "done" /\ baseline.analysisMethod = "statistical_baseline") =>
        baseline.confidence =
            IF /\ Len(CleanedUsagesAt) >= 20
               /\ DeviationBelowHalfMean(CleanedDeviation, baseline.averageUsage)
            THEN "high"
            ELSE IF \/ Len(CleanedUsagesAt) < 10
                    \/ DeviationAboveMean(CleanedDeviation, baseline.averageUsage)
            THEN "low"
            ELSE "medium"

----------------------------------------------------------------------------
(* The sessions the detector takes as limit hits                           *)

GroupedSessions == groupInto5HourSessions(records)

\* from the last event of session i to the start of the next session, or to dateNow after the last one
GapAfter(sessions, i, dateNow) ==
    IF i < Len(sessions)
    THEN sessions[i + 1].startTime - sessions[i].lastActivityTime
    ELSE dateNow - sessions[i].lastActivityTime

Flagged(sessions, i, dateNow) ==
    /\ sessions[i].totalTokens >= Tokens(10000)
    /\ sessions[i].totalTokens >= Tokens(15000)
    /\ sessions[i].totalTokens <= Tokens(200000)
    /\ \/ GapAfter(sessions, i, dateNow) > Ms(60 * 60 * 1000)
       \/ sessions[i].duration >= Ms(3 * 60 * 60 * 1000)

FlaggedSessions(sessions, dateNow) == {i \in DOMAIN sessions : Flagged(sessions, i, dateNow)}

\* candidateLimits are the totals of the flagged sessions, each as often as
\* it occurs among them, in ascending order, and sampleCount is their number
CandidatesAreFlaggedTotals(detection, sessions, flagged) ==
    /\ detection.sampleCount = Cardinality(flagged)
    /\ Len(detection.candidateLimits) = Cardinality(flagged)
    /\ \A k \in 1..(Len(detection.candidateLimits) - 1) :
          detection.candidateLimits[k] <= detection.candidateLimits[k + 1]
    /\ \A total \in {sessions[i].totalTokens : i \in DOMAIN sessions}
            \cup {detection.candidateLimits[k] : k \in DOMAIN detection.candidateLimits} :
          Cardinality({k \in DOMAIN detection.candidateLimits : detection.candidateLimits[k] = total})
            = Cardinality({i \in flagged : sessions[i].totalTokens = total})

\* C23: a session contributes its total to candidateLimits iff the total is
\* at least 10000 and within [15000, 200000] and the gap after it (to the
\* next session's start, or to now for the last session) exceeds 1 hour or
\* it lasted 3 hours or more; sampleCount is the number of such sessions and
\* candidateLimits their totals in ascending order.
C23_LimitHitFlagging ==
    pc = "done" =>
        CandidatesAreFlaggedTotals(result, GroupedSessions, FlaggedSessions(GroupedSessions, now))

FlaggedOutOfOrder(sessions, flagged) ==
    \E i, j \in flagged : i < j /\ sessions[i].totalTokens > sessions[j].totalTokens

\* two sessions are flagged, the later with the smaller total; the last
\* session is flagged by its duration alone; one session is below 15000 tokens
C23_Witness ==
    /\ pc = "done"
    /\ result.sampleCount >= 2
    /\ FlaggedOutOfOrder(GroupedSessions, FlaggedSessions(GroupedSessions, now))
    /\ Len(GroupedSessions) \in FlaggedSessions(GroupedSessions, now)
    /\ GapAfter(GroupedSessions, Len(GroupedSessions), now) <= Ms(60 * 60 * 1000)
    /\ \E i \in DOMAIN GroupedSessions : GroupedSessions[i].totalTokens < Tokens(15000)

\* the last session has a plausible total and is not flagged: it is short
\* and its last event is an hour old
C23_WitnessUnflagged ==
    /\ pc = "done"
    /\ result.sampleCount >= 1
    /\ Len(GroupedSessions) \notin FlaggedSessions(GroupedSessions, now)
    /\ GroupedSessions[Len(GroupedSessions)].totalTokens >= Tokens(15000)

----------------------------------------------------------------------------
(* The detector on sessions whose totals lie close together                *)

\* number of 8-hour periods of a drawn history
ClusterSessions == 6

\* the total of the one request of a period: none, or 30000, 34000, 36500 or 45000 tokens
ClusterTotals == <<Tokens(30000), Tokens(34000), Tokens(36500), Tokens(45000)>>

ClusterHistories ==
    {Flatten([k \in 1..ClusterSessions |->
                 IF picks[k] = 0 THEN <<>>
                 ELSE <<MakeRecord(PeriodStart(k) + Ms(30 * 60 * 1000),
                                   RequestOf(ClusterTotals[picks[k]]))>>]) :
        picks \in [1..ClusterSessions -> 0..Len(ClusterTotals)]}

InitClusters ==
    /\ records \in ClusterHistories
    /\ now = PeriodStart(ClusterSessions + 1)
    /\ pc = "input"
    /\ result = Null
    /\ sessionBlocks = <<>>
    /\ currentSession = Null
    /\ activeBlockId = Absent
    /\ baseline = Null
    /\ error = Null
    /\ configured = Absent
    /\ statusBar = Null
    /\ callerArray = records
    /\ evals = IdleEvaluations
    /\ tokenUsages = <<>>

NextClusters == RunDetector

SpecClusters == InitClusters /\ [][NextClusters]_vars

\* the running mean of the members of a cluster, rounded
Centroid(members) == Round(SumSeq(members), Len(members))

\* the clusters, each the sequence of its members, after value joined the
\* first one whose centroid is within 5000 tokens, or started a new one
JoinFirstWithin(clusters, value) ==
    LET within == {k \in DOMAIN clusters : Abs(value - Centroid(clusters[k])) <= Tokens(5000)} IN
    IF within = {} THEN Append(clusters, <<value>>)
    ELSE [clusters EXCEPT ![CHOOSE k \in within : \A j \in within : k <= j] = Append(@, value)]

RECURSIVE GreedyClusters(_, _)
GreedyClusters(ascending, i) ==
    IF i = 0 THEN <<>> ELSE JoinFirstWithin(GreedyClusters(ascending, i - 1), ascending[i])

\* the cluster with the most members, the first formed among equals
WinningCluster(clusters) ==
    clusters[CHOOSE k \in DOMAIN clusters :
                /\ \A j \in DOMAIN clusters : Len(clusters[j]) <= Len(clusters[k])
                /\ \A j \in 1..(k - 1) : Len(clusters[j]) < Len(clusters[k])]

LimitFromCluster(detection, winning) ==
    /\ detection.detectedLimit # Absent
    /\ \E m \in DOMAIN winning :
          /\ \A j \in DOMAIN winning : winning[m] <= winning[j]
          /\ ValueOf(detection.detectedLimit) = Round(85 * winning[m], 100)
    /\ \A j \in DOMAIN winning : ValueOf(detection.detectedLimit) < winning[j]

\* C24: the candidates, in ascending order, each join the first cluster
\* whose running-mean centroid is within 5000 tokens or start a new one;
\* with at least one candidate detectedLimit is round(0.85 * the smallest
\* member of the cluster with the most members), so it is not null and is
\* strictly below every member of that cluster.
C24_ClusterSelection ==
    (pc = "done" /\ result.sampleCount >= 1) =>
        LimitFromCluster(result,
                         WinningCluster(GreedyClusters(result.candidateLimits,
                                                       Len(result.candidateLimits))))

ClustersAt == GreedyClusters(result.candidateLimits, Len(result.candidateLimits))

\* 36500 joined the cluster of 30000 and 34000 because its centroid had moved
\* to 32000, a second cluster has as many members, and the first formed wins
C24_Witness ==
    /\ pc = "done"
    /\ result.sampleCount = ClusterSessions
    /\ Len(ClustersAt) = 2
    /\ ClustersAt[1] = <<Tokens(30000), Tokens(34000), Tokens(36500)>>
    /\ Len(ClustersAt[2]) = 3
    /\ result.detectedLimit = Present(Tokens(25500))

\* the larger cluster is the second formed
C24_WitnessSecond ==
    /\ pc = "done"
    /\ result.sampleCount >= 3
    /\ Len(ClustersAt) = 2
    /\ Len(ClustersAt[2]) > Len(ClustersAt[1])
    /\ result.detectedLimit = Present(Round(85 * Tokens(45000), 100))

----------------------------------------------------------------------------
(* The burn-rate analysis without recent events                            *)

NoEventsInLastTwoHours ==
    \A i \in DOMAIN records : ~(records[i].timestamp >= now - TWO_HOURS)

\* C25: when no event lies within the last 2 hours of now (the list may be
\* empty), calculateBurnRate returns an analysis whose rates, average
\* request size and three recent-activity sums are 0, whose trend is
\* "stable", whose prediction confidence is "low" and which holds no
\* predicted instant.
C25_ZeroedBurnRate ==
    (pc = "done" /\ NoEventsInLastTwoHours) =>
        /\ result.tokensPerMinute = 0
        /\ result.tokensPerHour = 0
        /\ result.averageRequestSize = 0
        /\ result.recentActivity.last15min = 0
        /\ result.recentActivity.last30min = 0
        /\ result.recentActivity.last60min = 0
        /\ result.trend = "stable"
        /\ result.predictions.confidence = "low"
        /\ result.predictions.timeToHighThreshold = Absent
        /\ result.predictions.timeToBaseline = Absent
        /\ result.predictions.estimatedDepletionTime = Absent

\* two events, both older than 2 hours
C25_Witness ==
    /\ pc = "done"
    /\ Len(records) = 2
    /\ NoEventsInLastTwoHours
    /\ result.tokensPerMinute = 0

\* the empty list
C25_WitnessEmpty ==
    /\ pc = "done"
    /\ records = <<>>
    /\ result.predictions.confidence = "low"

\* with recent events the analysis is not zero
C25_WitnessRecent ==
    /\ pc = "done"
    /\ result.tokensPerMinute > 0
    /\ result.recentActivity.last15min > 0
    /\ result.trend = "increasing"
    /\ result.predictions.confidence = "high"

----------------------------------------------------------------------------
(* The predictions of the burn-rate analysis                               *)

\* number of consecutive 10-minute buckets of a drawn session
PredictionBuckets == 4

\* the total of a bucket: none, or 600, 1500 or 6000 tokens
PredictionTotals == {0, Tokens(600), Tokens(1500), Tokens(6000)}

PredictionHistories ==
    {TrendHistoryOf(totals, PredictionBuckets) : totals \in [1..PredictionBuckets -> PredictionTotals]}

\* the default baseline, and the baselines computed from three small and
\* from three middling windows
PredictionBaselines ==
    {createDefaultBaseline,
     BaselineFromUsages(<<Tokens(1200), Tokens(1500), Tokens(2400)>>),
     BaselineFromUsages(<<Tokens(6000), Tokens(9000), Tokens(12000)>>)}

InitPredictions ==
    /\ records \in PredictionHistories
    /\ baseline \in PredictionBaselines
    /\ now = TrendBase + PredictionBuckets * windowSizeMs
    /\ pc = "input"
    /\ result = Null
    /\ sessionBlocks = <<>>
    /\ currentSession = Null
    /\ activeBlockId = Absent
    /\ error = Null
    /\ configured = Absent
    /\ statusBar = Null
    /\ callerArray = records
    /\ evals = IdleEvaluations
    /\ tokenUsages = <<>>

\* calculateBurnRate as createUsageStatus calls it: on the records of the
\* session, with their total as the current usage and the high threshold and
\* the average of the baseline
RunStatusBurnRate ==
    /\ pc = "input"
    /\ result' = calculateBurnRate(records, now, RateLimitTokens(records),
                                   baseline.highUsageThreshold, baseline.averageUsage)
    /\ pc' = "done"
    /\ UNCHANGED <<tokenUsages, callerArray, evals, records, now, sessionBlocks, currentSession, activeBlockId,
                   baseline, error, configured, statusBar>>

NextPredictions == RunStatusBurnRate

SpecPredictions == InitPredictions /\ [][NextPredictions]_vars

\* the raw rate times 1.2, 0.8 or 1.0, in tenths of a token per minute
TrendAdjusted(tokensPerMinute, trend) ==
    tokensPerMinute * (CASE trend = "increasing" -> 12
                         [] trend = "decreasing" -> 8
                         [] trend = "stable" -> 10)

\* (target - usage) / adjustedRate < 300 minutes; usage and target count hundreds of tokens
ArrivesWithinCap(usage, target, tokensPerMinute, trend) ==
    100 * (target - usage) * 10 < 300 * TrendAdjusted(tokensPerMinute, trend)

\* prediction is present iff the rate is positive, the usage is below the
\* target and the arrival is less than 300 minutes away; a present
\* prediction lies after dateNow and less than 5 hours after it
PredictionCapped(prediction, usage, target, tokensPerMinute, trend, dateNow) ==
    /\ prediction # Absent <=> /\ tokensPerMinute > 0
                               /\ usage < target
                               /\ ArrivesWithinCap(usage, target, tokensPerMinute, trend)
    /\ prediction # Absent =>
          /\ ValueOf(prediction).after = dateNow
          /\ ValueOf(prediction).den > 0
          /\ ValueOf(prediction).num > 0
          /\ ValueOf(prediction).num < 5 * 60 * ValueOf(prediction).den

C26_WitnessDecreasing ==
    /\ pc = "done"
    /\ result.trend = "decreasing"
    /\ result.predictions.timeToBaseline = Absent
    /\ result.predictions.timeToHighThreshold # Absent
    /\ result.predictions.estimatedDepletionTime # Absent

\* a single request: no time span, rate 0, and no prediction although the usage is below the target
C26_WitnessNoRate ==
    /\ pc = "done"
    /\ result.tokensPerMinute = 0
    /\ records # <<>>
    /\ RateLimitTokens(records) < baseline.averageUsage
    /\ result.predictions.timeToBaseline = Absent

----------------------------------------------------------------------------
(* Specification of the outlier filter over drawn window totals            *)

\* longest drawn list of window totals
CleaningWindows == 6

\* the drawn totals lie up to this many tokens above the lowest one
CleaningSpread == 3

\* window totals in whole tokens, on which calculatePercentile rounds as the
\* source does: a few neighbouring totals above the 1000 tokens a window needs
\* to qualify, and one far above them
CleaningTotals == {2 * 1000 + d : d \in 0..CleaningSpread} \cup {6 * 1000}

CleaningLists == UNION {[1..n -> CleaningTotals] : n \in 0..CleaningWindows}

InitCleaning ==
    /\ tokenUsages \in CleaningLists
    /\ records = <<>>
    /\ now = 0
    /\ activeBlockId = Absent
    /\ pc = "input"
    /\ sessionBlocks = <<>>
    /\ currentSession = Null
    /\ baseline = Null
    /\ error = Null
    /\ configured = Absent
    /\ result = Null
    /\ statusBar = Null
    /\ callerArray = records
    /\ evals = IdleEvaluations

\* calculateUsageBaseline from the point where tokenUsages is known; result
\* keeps what removeOutliers returns for it
RunCleaning ==
    /\ pc = "input"
    /\ baseline' = BaselineFromUsages(tokenUsages)
    /\ result' = [cleanedUsages |-> removeOutliers(tokenUsages)]
    /\ pc' = "done"
    /\ UNCHANGED <<tokenUsages, records, now, activeBlockId, sessionBlocks, currentSession,
                   error, configured, statusBar, callerArray, evals>>

NextCleaning == RunCleaning

SpecCleaning == InitCleaning /\ [][NextCleaning]_vars

\* C27 as stated: of at least 3 window totals at least 3 are left by
\* removeOutliers, and the baseline computed from them is never the default.
C27_RemovalKeepsThree ==
    (pc = "done" /\ Len(tokenUsages) >= 3) =>
        /\ Len(result.cleanedUsages) >= 3
        /\ baseline.analysisMethod = "statistical_baseline"

\* C27: of at least 3 window totals at least 2 are left by removeOutliers, and
\* at least 3 unless there were exactly 4; the default baseline is returned
\* exactly when fewer than 3 totals were given or fewer than 3 are left.
C27_RemovalKeepsTwo ==
    pc = "done" =>
        /\ Len(tokenUsages) >= 3 => Len(result.cleanedUsages) >= 2
        /\ (Len(tokenUsages) >= 3 /\ Len(tokenUsages) # 4) => Len(result.cleanedUsages) >= 3
        /\ baseline.analysisMethod # "statistical_baseline"
               <=> (Len(tokenUsages) < 3 \/ Len(result.cleanedUsages) < 3)

\* four qualifying totals of which removeOutliers leaves two: the second
\* fallback returns the default baseline
C27_Witness ==
    /\ pc = "done"
    /\ Len(tokenUsages) = 4
    /\ \A i \in DOMAIN tokenUsages : tokenUsages[i] > 1000
    /\ Len(result.cleanedUsages) = 2
    /\ baseline = createDefaultBaseline

\* the far total is removed from a longest list and a baseline is computed
C27_WitnessComputed ==
    /\ pc = "done"
    /\ Len(tokenUsages) = CleaningWindows
    /\ Len(result.cleanedUsages) = CleaningWindows - 1
    /\ baseline.analysisMethod = "statistical_baseline"

----------------------------------------------------------------------------
(* The adaptive trend threshold against a fixed one                        *)

\* the classification of the slope num / den with the threshold fixed at 50
FixedThresholdTrend(num, den) ==
    IF 2 * num > Tokens(2 * 50) * den THEN "increasing"
    ELSE IF 2 * num < -(Tokens(2 * 50) * den) THEN "decreasing"
    ELSE "stable"

\* Math.abs(slope) > 100: the adaptive threshold is 100
SteepSlope(windows) ==
    2 * Abs(SlopeNumerator(windows)) > Tokens(2 * 100) * SlopeDenominator(windows)

\* C28: the trend of the burn-rate analysis is the one a threshold fixed at 50
\* gives: "increasing" iff the slope over the non-empty buckets is above 50,
\* "decreasing" iff it is below -50, "stable" otherwise; with fewer than 3
\* non-empty buckets it is "stable".
C28_TrendThresholdEquivalence ==
    pc = "done" =>
        result.trend = IF Len(RecentBuckets) < 3 THEN "stable"
                       ELSE FixedThresholdTrend(SlopeNumerator(RecentBuckets),
                                                SlopeDenominator(RecentBuckets))

\* a slope below -100, where the adaptive threshold is 100: "decreasing"
C28_Witness ==
    /\ pc = "done"
    /\ Len(RecentBuckets) >= 3
    /\ SteepSlope(RecentBuckets)
    /\ SlopeNumerator(RecentBuckets) < 0
    /\ result.trend = "decreasing"

\* a slope above 50 and not above 100, where the adaptive threshold is 50
C28_WitnessGentle ==
    /\ pc = "done"
    /\ Len(RecentBuckets) >= 3
    /\ ~SteepSlope(RecentBuckets)
    /\ 2 * SlopeNumerator(RecentBuckets) > Tokens(2 * 50) * SlopeDenominator(RecentBuckets)
    /\ result.trend = "increasing"

\* three buckets or more with a slope of at most 50 either way: "stable"
C28_WitnessFlat ==
    /\ pc = "done"
    /\ Len(RecentBuckets) >= 3
    /\ SlopeNumerator(RecentBuckets) # 0
    /\ result.trend = "stable"

\* two rising buckets: "stable" whatever the slope
C28_WitnessTwoBuckets ==
    /\ pc = "done"
    /\ Len(RecentBuckets) = 2
    /\ RecentBuckets[2].tokens - RecentBuckets[1].tokens > Tokens(1000)
    /\ result.trend = "stable"

----------------------------------------------------------------------------
(* Order of the baseline thresholds and the usage flags of a status        *)

\* averageUsage <= highUsageThreshold <= criticalUsageThreshold
ThresholdsOrdered(usageBaseline) ==
    /\ usageBaseline.averageUsage <= usageBaseline.highUsageThreshold
    /\ usageBaseline.highUsageThreshold <= usageBaseline.criticalUsageThreshold

\* the flags and the level of a status agree
FlagsAgree(status) ==
    /\ status.isCriticalUsage => status.isHighUsage
    /\ status.usageLevel = "critical" <=> status.isCriticalUsage
    /\ status.usageLevel = "high" <=> (status.isHighUsage /\ ~status.isCriticalUsage)

\* C29: the baseline of every status has its average at most its high
\* threshold and its high threshold at most its critical one; in the status
\* isCriticalUsage implies isHighUsage, usageLevel is "critical" iff
\* isCriticalUsage, and "high" iff isHighUsage without isCriticalUsage.
C29_ThresholdOrdering ==
    (pc = "done" /\ result # Null) =>
        /\ ThresholdsOrdered(result.baseline)
        /\ FlagsAgree(result.status)

\* a computed baseline with three distinct thresholds, and a critical status
C29_Witness ==
    /\ pc = "done"
    /\ result # Null
    /\ result.baseline.analysisMethod = "statistical_baseline"
    /\ result.baseline.averageUsage < result.baseline.highUsageThreshold
    /\ result.baseline.highUsageThreshold < result.baseline.criticalUsageThreshold
    /\ result.status.isCriticalUsage
    /\ result.status.usageLevel = "critical"

\* a computed baseline and a usage between its high and critical thresholds
C29_WitnessHigh ==
    /\ pc = "done"
    /\ result # Null
    /\ result.baseline.analysisMethod = "statistical_baseline"
    /\ result.status.isHighUsage
    /\ ~result.status.isCriticalUsage
    /\ result.status.usageLevel = "high"

\* the default baseline and a usage below its high threshold
C29_WitnessDefault ==
    /\ pc = "done"
    /\ result # Null
    /\ result.baseline = createDefaultBaseline
    /\ ~result.status.isHighUsage
    /\ result.status.usageLevel \in {"normal", "low"}

----------------------------------------------------------------------------
(* Specification of updateStatusBar with its catch clause, invoked by the  *)
(* periodic timer or by the refresh command                                *)

\* the time value of new Date(s) for a timestamp s that does not parse (NaN).
\* parseJsonlFile keeps every line whose timestamp is truthy, so such an event
\* reaches the records
InvalidTime == 0 - 1

\* a history of one event whose timestamp does not parse
MalformedHistory == <<MakeRecord(InvalidTime, SmallRequest)>>

StatusBarHistories == Histories \cup {MalformedHistory}

\* what await getUsageStatus() settles to when the evaluation throws
Thrown == [thrown |-> "RangeError: Invalid time value"]

\* createSessionFromBlock evaluates startTime.toISOString(), which throws a
\* RangeError on the invalid date floorToHour makes of a timestamp that does
\* not parse; no function between it and updateStatusBar catches.  The one
\* history drawn with such an event holds it alone, as the start of its block
GetUsageStatusThrows(parsed) ==
    /\ Len(parsed.records) = 1
    /\ parsed.records[1].timestamp = InvalidTime

\* the outcome of await getUsageStatus(): a result, null, or an exception
AwaitUsageStatus(parsed, limit, currentTime) ==
    IF GetUsageStatusThrows(parsed) THEN Thrown
    ELSE getUsageStatus(parsed, limit, currentTime)

\* the text and color the catch clause sets
DataErrorBar == [text |-> "$(error) Data Error", shown |-> <<>>, color |-> "#ff4444"]

\* variant: no catch clause, the exception leaves the status bar as it was
\* and rejects the promise of updateStatusBar
updateStatusBarUncaught(outcome, bar) ==
    IF outcome = Thrown THEN [statusBar |-> bar, completion |-> "rejected"]
    ELSE [statusBar |-> StatusBarFor(outcome), completion |-> "resolved"]

\* updateStatusBar from the outcome of getUsageStatus on: the status bar it
\* leaves and how its promise settles
updateStatusBar(outcome, bar) ==
    IF outcome = Thrown THEN [statusBar |-> DataErrorBar, completion |-> "resolved"]
    ELSE [statusBar |-> StatusBarFor(outcome), completion |-> "resolved"]

InitStatusBar ==
    /\ records \in StatusBarHistories
    /\ error \in ParseErrorsFor(records)
    /\ now \in EvaluationNows
    /\ configured \in ConfiguredLimits
    /\ pc = "input"
    /\ result = Null
    /\ statusBar = [text |-> "", shown |-> <<>>, color |-> ""]
    /\ sessionBlocks = <<>>
    /\ currentSession = Null
    /\ activeBlockId = Absent
    /\ baseline = Null
    /\ callerArray = records
    /\ evals = IdleEvaluations
    /\ tokenUsages = <<>>

\* who called updateStatusBar and how the call settled, as a value of pc
Settled(caller, completion) ==
    CASE caller = "timer" /\ completion = "resolved" -> "timerResolved"
      [] caller = "timer" /\ completion = "rejected" -> "timerRejected"
      [] caller = "refresh" /\ completion = "resolved" -> "refreshResolved"
      [] caller = "refresh" /\ completion = "rejected" -> "refreshRejected"

\* one call of updateStatusBar; pc keeps who called and how the call settled
InvokeUpdateStatusBar(caller) ==
    /\ pc = "input"
    /\ result' = AwaitUsageStatus([records |-> records, error |-> error],
                                  getCustomLimit(configured), now)
    /\ statusBar' = updateStatusBar(result', statusBar).statusBar
    /\ pc' = Settled(caller, updateStatusBar(result', statusBar).completion)
    /\ UNCHANGED <<tokenUsages, callerArray, evals, records, now, error, configured,
                   sessionBlocks, currentSession, activeBlockId, baseline>>

\* setInterval(updateStatusBar, 60000)
TimerFires == InvokeUpdateStatusBar("timer")

\* the claude-code-usage.refresh command
RefreshCommand == InvokeUpdateStatusBar("refresh")

NextStatusBar == TimerFires \/ RefreshCommand

SpecStatusBar == InitStatusBar /\ [][NextStatusBar]_vars

\* the status bar text that goes with an outcome of getUsageStatus
TextOfOutcome(outcome) ==
    IF outcome = Thrown THEN "$(error) Data Error"
    ELSE IF outcome = Null THEN "$(terminal) No active block"
    ELSE IF outcome.status.error # Null THEN "$(warning) Data Issue"
    ELSE "$(terminal) ${percentage}% | ${rateLimitFormatted} | ${resetTime}"

\* C30: every call of updateStatusBar, from the timer or the refresh command,
\* resolves, and leaves the status bar with the usage text when the status has
\* no error, "$(warning) Data Issue" when it has one, "$(terminal) No active
\* block" when the evaluation returned null and "$(error) Data Error" when it
\* threw.
C30_StatusBarOutcome ==
    pc # "input" =>
        /\ pc \in {"timerResolved", "refreshResolved"}
        /\ statusBar.text = TextOfOutcome(result)
        /\ statusBar.text # ""

\* the evaluation threw on a timer call: Data Error is shown and the call resolved
C30_Witness ==
    /\ pc = "timerResolved"
    /\ result = Thrown
    /\ statusBar = DataErrorBar

\* a refresh with an error descriptor on the status: Data Issue
C30_WitnessDataIssue ==
    /\ pc = "refreshResolved"
    /\ result # Thrown /\ result # Null
    /\ result.status.error # Null
    /\ statusBar.text = "$(warning) Data Issue"

\* a refresh with no events and no error: No active block
C30_WitnessNoBlock ==
    /\ pc = "refreshResolved"
    /\ result = Null
    /\ statusBar.text = "$(terminal) No active block"

\* a timer call with a status free of error: the usage text
C30_WitnessNormal ==
    /\ pc = "timerResolved"
    /\ result # Thrown /\ result # Null
    /\ result.status.error = Null
    /\ statusBar.shown # <<>>

====
